---- MODULE Spec2Model ----
(***************************************************************************)
(* A model of the bit assembler and the automatic version search of the    *)
(* qrqrpar QR / Micro QR / rMQR encoder (src/src/bits.rs, src/src/types.rs)*)
(*                                                                         *)
(* A Bits value is the record [data, bit_offset, version]; every method    *)
(* of Bits is an operator from the Bits before the call to the Bits after  *)
(* it and the QrResult returned.  The state machine holds one Bits object  *)
(* and a record of the last call made on it.                               *)
(***************************************************************************)
EXTENDS Integers, Sequences, FiniteSets, TLC

VARIABLES
    bits,      \* the Bits object: [data, bit_offset, version]
    last,      \* the last call: operation, arguments, result, Bits before it
    calls,     \* the (n, number) pairs pushed so far by push_number
    pc,        \* position in test_push_number, 0 when the test does not run
    directed_segments,  \* the DirectedSegments of to_svg: its segments
    trace      \* to_svg at work: the cells added and the outline popped last

\* the variables of the SVG outline tracer
render == <<directed_segments, trace>>

vars == <<bits, last, calls, pc, directed_segments, trace>>

(***************************************************************************)
(* Machine integers                                                        *)
(***************************************************************************)
RECURSIVE Pow2(_)
Pow2(k) == IF k = 0 THEN 1 ELSE 2 * Pow2(k - 1)

\* `x << k` on a u16 (the bits shifted out are lost)
Shl16(x, k) == (x * Pow2(k)) % 65536

\* `x >> k`
Shr(x, k) == x \div Pow2(k)

\* `x as u8`
AsU8(x) == x % 256

\* bit i of x, bit 0 the least significant
BitOf(x, i) == (x \div Pow2(i)) % 2

RECURSIVE OrFrom(_, _, _)
OrFrom(a, b, i) ==
    IF i > 7 THEN 0
    ELSE (IF BitOf(a, i) = 1 \/ BitOf(b, i) = 1 THEN Pow2(i) ELSE 0)
         + OrFrom(a, b, i + 1)

\* a wrong BitOr: the byte is overwritten, its earlier bits are lost
BitOr_overwrite(a, b) == b

\* `a | b` on u8
BitOr(a, b) == OrFrom(a, b, 0)

Min(a, b) == IF a < b THEN a ELSE b

(***************************************************************************)
(* types.rs : EcLevel, Version, Mode                                       *)
(***************************************************************************)
EcLevels == 0 .. 3

Modes == {"Numeric", "Alphanumeric", "Byte", "Kanji"}

Normal(v) == [kind |-> "Normal", a |-> v, b |-> 0]
Micro(v) == [kind |-> "Micro", a |-> v, b |-> 0]
Rmqr(h, w) == [kind |-> "Rmqr", a |-> h, b |-> w]

rmqr_all_width == <<27, 43, 59, 77, 99, 139>>

rmqr_all_height == <<7, 9, 11, 13, 15, 17>>

\* Version::rmqr_all : the 32 tabulated (height, width) pairs, in the order
\* of the indices Version::rmqr_index gives them
rmqr_all == <<
    <<7, 43>>, <<7, 59>>, <<7, 77>>, <<7, 99>>, <<7, 139>>,
    <<9, 43>>, <<9, 59>>, <<9, 77>>, <<9, 99>>, <<9, 139>>,
    <<11, 27>>, <<11, 43>>, <<11, 59>>, <<11, 77>>, <<11, 99>>, <<11, 139>>,
    <<13, 27>>, <<13, 43>>, <<13, 59>>, <<13, 77>>, <<13, 99>>, <<13, 139>>,
    <<15, 43>>, <<15, 59>>, <<15, 77>>, <<15, 99>>, <<15, 139>>,
    <<17, 43>>, <<17, 59>>, <<17, 77>>, <<17, 99>>, <<17, 139>> >>

\* Version::rmqr_index : the index (from 0) of a tabulated rMQR version,
\* -1 for Err(InvalidVersion)
rmqr_index(version) ==
    LET hit == {i \in 1 .. Len(rmqr_all) :
                    rmqr_all[i] = <<version.a, version.b>>}
    IN  IF version.kind = "Rmqr" /\ hit # {}
        THEN (CHOOSE i \in hit : TRUE) - 1
        ELSE -1

is_rmqr(version) == rmqr_index(version) # -1

\* a wrong width: a Micro version is measured as a Normal one
width_of_normal(version) ==
    IF version.kind = "Rmqr" THEN version.b ELSE version.a * 4 + 17

width(version) ==
    CASE version.kind = "Normal" -> version.a * 4 + 17
      [] version.kind = "Micro" -> version.a * 2 + 9
      [] OTHER -> version.b

height(version) ==
    IF version.kind = "Rmqr" THEN version.a ELSE width(version)

area(version) == width(version) * height(version)

RMQR_LENGTH_BITS_COUNT == <<
    <<4, 3, 3, 2>>, <<5, 5, 4, 3>>, <<6, 5, 5, 4>>, <<7, 6, 5, 5>>,
    <<7, 6, 6, 5>>, <<5, 5, 4, 3>>, <<6, 5, 5, 4>>, <<7, 6, 5, 5>>,
    <<7, 6, 6, 5>>, <<8, 7, 6, 6>>, <<4, 4, 3, 2>>, <<6, 5, 5, 4>>,
    <<7, 6, 5, 5>>, <<7, 6, 6, 5>>, <<8, 7, 6, 6>>, <<8, 7, 7, 6>>,
    <<5, 5, 4, 3>>, <<6, 6, 5, 5>>, <<7, 6, 6, 5>>, <<7, 7, 6, 6>>,
    <<8, 7, 7, 6>>, <<8, 8, 7, 7>>, <<7, 6, 6, 5>>, <<7, 7, 6, 5>>,
    <<8, 7, 7, 6>>, <<8, 7, 7, 6>>, <<9, 8, 7, 7>>, <<7, 6, 6, 5>>,
    <<8, 7, 6, 6>>, <<8, 7, 7, 6>>, <<8, 8, 7, 6>>, <<9, 8, 8, 7>> >>

ModeColumn(mode) ==
    CASE mode = "Numeric" -> 1 [] mode = "Alphanumeric" -> 2
      [] mode = "Byte" -> 3 [] OTHER -> 4

\* a wrong length_bits_count: the byte count of Normal(1..9) has 7 bits
length_bits_count_narrow(mode, version) ==
    CASE version.kind = "Micro" ->
           (CASE mode = "Numeric" -> 2 + version.a
              [] mode \in {"Alphanumeric", "Byte"} -> 1 + version.a
              [] OTHER -> version.a)
      [] version.kind = "Normal" /\ version.a \in 1 .. 9 ->
           (CASE mode = "Numeric" -> 10 [] mode = "Alphanumeric" -> 9
              [] mode = "Byte" -> 7 [] OTHER -> 8)
      [] version.kind = "Normal" /\ version.a \in 10 .. 26 ->
           (CASE mode = "Numeric" -> 12 [] mode = "Alphanumeric" -> 11
              [] mode = "Byte" -> 16 [] OTHER -> 10)
      [] version.kind = "Normal" ->
           (CASE mode = "Numeric" -> 14 [] mode = "Alphanumeric" -> 13
              [] mode = "Byte" -> 16 [] OTHER -> 12)
      [] OTHER ->
           RMQR_LENGTH_BITS_COUNT[(IF rmqr_index(version) = -1 THEN 31
                                   ELSE rmqr_index(version)) + 1]
                                 [ModeColumn(mode)]

\* Mode::length_bits_count
length_bits_count(mode, version) ==
    CASE version.kind = "Micro" ->
           (CASE mode = "Numeric" -> 2 + version.a
              [] mode \in {"Alphanumeric", "Byte"} -> 1 + version.a
              [] OTHER -> version.a)
      [] version.kind = "Normal" /\ version.a \in 1 .. 9 ->
           (CASE mode = "Numeric" -> 10 [] mode = "Alphanumeric" -> 9
              [] OTHER -> 8)
      [] version.kind = "Normal" /\ version.a \in 10 .. 26 ->
           (CASE mode = "Numeric" -> 12 [] mode = "Alphanumeric" -> 11
              [] mode = "Byte" -> 16 [] OTHER -> 10)
      [] version.kind = "Normal" ->
           (CASE mode = "Numeric" -> 14 [] mode = "Alphanumeric" -> 13
              [] mode = "Byte" -> 16 [] OTHER -> 12)
      [] OTHER ->
           LET i == rmqr_index(version)
               index == IF i = -1 THEN 31 ELSE i
           IN  RMQR_LENGTH_BITS_COUNT[index + 1][ModeColumn(mode)]

\* Mode::data_bits_count
data_bits_count(mode, raw_data_len) ==
    CASE mode = "Numeric" -> (raw_data_len * 10 + 2) \div 3
      [] mode = "Alphanumeric" -> (raw_data_len * 11 + 1) \div 2
      [] mode = "Byte" -> raw_data_len * 8
      [] OTHER -> raw_data_len * 13

\* a wrong mode_bits_count: Micro(a) has a bits
mode_bits_count_wide(version) ==
    CASE version.kind = "Normal" -> 4
      [] version.kind = "Micro" -> version.a % 256
      [] OTHER -> 3

\* Version::mode_bits_count; the subtraction a - 1 is on u8 and wraps in a
\* build without overflow checks
mode_bits_count(version) ==
    CASE version.kind = "Normal" -> 4
      [] version.kind = "Micro" -> (version.a - 1) % 256
      [] OTHER -> 3

\* Version::mode_bits_count: the u8 subtraction a - 1 leaves the range of u8
mode_bits_overflow(version) == version.kind = "Micro" /\ version.a - 1 < 0

\* impl PartialOrd for Mode: partial_cmp, "None" when the modes are not
\* comparable
partial_cmp(self, other) ==
    CASE self = "Numeric" /\ other = "Alphanumeric" -> "Less"
      [] self = "Alphanumeric" /\ other = "Numeric" -> "Greater"
      [] self = "Numeric" /\ other = "Byte" -> "Less"
      [] self = "Byte" /\ other = "Numeric" -> "Greater"
      [] self = "Alphanumeric" /\ other = "Byte" -> "Less"
      [] self = "Byte" /\ other = "Alphanumeric" -> "Greater"
      [] self = "Kanji" /\ other = "Byte" -> "Less"
      [] self = "Byte" /\ other = "Kanji" -> "Greater"
      [] self = other -> "Equal"
      [] OTHER -> "None"

\* a wrong Mode::max: modes that are not comparable give the second one
max_or_other(self, other) ==
    CASE partial_cmp(self, other) \in {"Less", "Equal"} -> other
      [] partial_cmp(self, other) = "Greater" -> self
      [] OTHER -> other

\* Mode::max
max(self, other) ==
    CASE partial_cmp(self, other) \in {"Less", "Equal"} -> other
      [] partial_cmp(self, other) = "Greater" -> self
      [] OTHER -> "Byte"

(***************************************************************************)
(* bits.rs : the capacity table and Version::fetch                         *)
(***************************************************************************)
\* data bits per version (40 Normal, 4 Micro, 32 rMQR) and level [L, M, Q, H]
DATA_LENGTHS == <<
    <<152, 128, 104, 72>>, <<272, 224, 176, 128>>, <<440, 352, 272, 208>>,
    <<640, 512, 384, 288>>, <<864, 688, 496, 368>>, <<1088, 864, 608, 480>>,
    <<1248, 992, 704, 528>>, <<1552, 1232, 880, 688>>,
    <<1856, 1456, 1056, 800>>, <<2192, 1728, 1232, 976>>,
    <<2592, 2032, 1440, 1120>>, <<2960, 2320, 1648, 1264>>,
    <<3424, 2672, 1952, 1440>>, <<3688, 2920, 2088, 1576>>,
    <<4184, 3320, 2360, 1784>>, <<4712, 3624, 2600, 2024>>,
    <<5176, 4056, 2936, 2264>>, <<5768, 4504, 3176, 2504>>,
    <<6360, 5016, 3560, 2728>>, <<6888, 5352, 3880, 3080>>,
    <<7456, 5712, 4096, 3248>>, <<8048, 6256, 4544, 3536>>,
    <<8752, 6880, 4912, 3712>>, <<9392, 7312, 5312, 4112>>,
    <<10208, 8000, 5744, 4304>>, <<10960, 8496, 6032, 4768>>,
    <<11744, 9024, 6464, 5024>>, <<12248, 9544, 6968, 5288>>,
    <<13048, 10136, 7288, 5608>>, <<13880, 10984, 7880, 5960>>,
    <<14744, 11640, 8264, 6344>>, <<15640, 12328, 8920, 6760>>,
    <<16568, 13048, 9368, 7208>>, <<17528, 13800, 9848, 7688>>,
    <<18448, 14496, 10288, 7888>>, <<19472, 15312, 10832, 8432>>,
    <<20528, 15936, 11408, 8768>>, <<21616, 16816, 12016, 9136>>,
    <<22496, 17728, 12656, 9776>>, <<23648, 18672, 13328, 10208>>,
    <<20, 0, 0, 0>>, <<40, 32, 0, 0>>, <<84, 68, 0, 0>>, <<128, 112, 80, 0>>,
    <<0, 48, 0, 24>>, <<0, 96, 0, 56>>, <<0, 160, 0, 80>>, <<0, 224, 0, 112>>,
    <<0, 352, 0, 192>>, <<0, 96, 0, 56>>, <<0, 168, 0, 88>>,
    <<0, 248, 0, 136>>, <<0, 336, 0, 176>>, <<0, 504, 0, 264>>,
    <<0, 56, 0, 40>>, <<0, 152, 0, 88>>, <<0, 248, 0, 120>>,
    <<0, 344, 0, 184>>, <<0, 456, 0, 232>>, <<0, 672, 0, 336>>,
    <<0, 96, 0, 56>>, <<0, 216, 0, 104>>, <<0, 304, 0, 160>>,
    <<0, 424, 0, 232>>, <<0, 584, 0, 280>>, <<0, 848, 0, 432>>,
    <<0, 264, 0, 120>>, <<0, 384, 0, 208>>, <<0, 536, 0, 248>>,
    <<0, 704, 0, 384>>, <<0, 1016, 0, 552>>, <<0, 312, 0, 168>>,
    <<0, 448, 0, 224>>, <<0, 624, 0, 304>>, <<0, 800, 0, 448>>,
    <<0, 1216, 0, 608>> >>

\* a wrong fetch: the entry of a Micro version is returned whatever it is
fetch_unchecked(version, ec_level, table) ==
    CASE version.kind = "Normal" /\ version.a \in 1 .. 40 ->
           table[(version.a - 1) + 1][ec_level + 1]
      [] version.kind = "Micro" /\ version.a \in 1 .. 4 ->
           table[(version.a + 39) + 1][ec_level + 1]
      [] version.kind = "Rmqr" ->
           IF rmqr_index(version) = -1 THEN -1
           ELSE IF table[(rmqr_index(version) + 44) + 1][ec_level + 1] # 0
           THEN table[(rmqr_index(version) + 44) + 1][ec_level + 1]
           ELSE -1
      [] OTHER -> -1

\* Version::fetch : the table entry, -1 for Err(InvalidVersion)
fetch(version, ec_level, table) ==
    CASE version.kind = "Normal" /\ version.a \in 1 .. 40 ->
           table[(version.a - 1) + 1][ec_level + 1]
      [] version.kind = "Micro" /\ version.a \in 1 .. 4 ->
           LET obj == table[(version.a + 39) + 1][ec_level + 1]
           IN  IF obj # 0 THEN obj ELSE -1
      [] version.kind = "Rmqr" ->
           LET index == rmqr_index(version)
           IN  IF index = -1 THEN -1
               ELSE LET obj == table[(index + 44) + 1][ec_level + 1]
                    IN  IF obj # 0 THEN obj ELSE -1
      [] OTHER -> -1

(***************************************************************************)
(* bits.rs : Bits                                                          *)
(***************************************************************************)
\* Bits::new
new(version) == [data |-> <<>>, bit_offset |-> 0, version |-> version]

\* a wrong len: the unused bits of the last byte are counted
len_whole_bytes(b) == Len(b.data) * 8

\* Bits::len
len(b) ==
    IF b.bit_offset = 0 THEN Len(b.data) * 8
    ELSE (Len(b.data) - 1) * 8 + b.bit_offset

\* a wrong max_len: one bit less than the table says
max_len_one_less(b, ec_level) ==
    LET limit == fetch(b.version, ec_level, DATA_LENGTHS)
    IN  IF limit = -1 THEN -1 ELSE limit - 1

\* Bits::max_len
max_len(b, ec_level) == fetch(b.version, ec_level, DATA_LENGTHS)

\* Bits::push_number : the five arms of the match on (bit_offset, b).
\* Callers keep n <= 16 and, when bit_offset # 0, data non-empty.
push_number(b, n, number) ==
    LET bb == b.bit_offset + n
        d == b.data
        last_index == Len(d)
        nd ==
          CASE b.bit_offset = 0 /\ bb <= 8 ->
                 Append(d, AsU8(Shl16(number, 8 - bb)))
            [] b.bit_offset = 0 /\ bb > 8 ->
                 Append(Append(d, AsU8(Shr(number, bb - 8))),
                        AsU8(Shl16(number, 16 - bb)))
            [] b.bit_offset # 0 /\ bb <= 8 ->
                 [d EXCEPT ![last_index] =
                      BitOr(@, AsU8(Shl16(number, 8 - bb)))]
            [] b.bit_offset # 0 /\ bb \in 9 .. 16 ->
                 Append([d EXCEPT ![last_index] =
                             BitOr(@, AsU8(Shr(number, bb - 8)))],
                        AsU8(Shl16(number, 16 - bb)))
            [] OTHER ->
                 Append(Append([d EXCEPT ![last_index] =
                                    BitOr(@, AsU8(Shr(number, bb - 8)))],
                               AsU8(Shr(number, bb - 16))),
                        AsU8(Shl16(number, 24 - bb)))
    IN  [b EXCEPT !.data = nd, !.bit_offset = bb % 8]

\* a QrResult<()> together with the Bits the call leaves behind
Ret(b, res) == [b |-> b, res |-> res]

\* the `?` operator: an Err ends the caller and leaves the Bits as they
\* are by then; after Ok the caller goes on with them
Try(r, Rest(_)) == IF r.res # "Ok" THEN r ELSE Rest(r.b)

\* Result::or(Err(err))
or_err(r, err) == IF r.res = "Ok" THEN r ELSE Ret(r.b, err)

\* a wrong push_number_checked: 2^n itself passes for an n-bit number
push_number_checked_lax(b, n, number) ==
    IF n > 16 \/ number > Pow2(n)
    THEN Ret(b, "DataTooLong")
    ELSE Ret(push_number(b, n, number % 65536), "Ok")

\* Bits::push_number_checked
push_number_checked(b, n, number) ==
    IF n > 16 \/ number >= Pow2(n)
    THEN Ret(b, "DataTooLong")
    ELSE Ret(push_number(b, n, number), "Ok")

\* the indicator value of the match in push_mode_indicator
mode_indicator_number(version, mode) ==
    CASE version.kind = "Micro" ->
           (CASE mode = "Numeric" -> 0 [] mode = "Alphanumeric" -> 1
              [] mode = "Byte" -> 2 [] OTHER -> 3)
      [] version.kind = "Rmqr" ->
           (CASE mode = "Numeric" -> 1 [] mode = "Alphanumeric" -> 2
              [] mode = "Byte" -> 3 [] OTHER -> 4)
      [] OTHER ->
           (CASE mode = "Numeric" -> 1 [] mode = "Alphanumeric" -> 2
              [] mode = "Byte" -> 4 [] OTHER -> 8)

\* Bits::push_mode_indicator
push_mode_indicator(b, mode, debug) ==
    IF b.version = Micro(1) /\ mode = "Numeric" THEN Ret(b, "Ok")
    ELSE IF debug /\ mode_bits_overflow(b.version) THEN Ret(b, "Panic")
    ELSE or_err(push_number_checked(b, mode_bits_count(b.version),
                                     mode_indicator_number(b.version, mode)),
                 "UnsupportedCharacterSet")

\* a wrong push_header: the length is checked before the mode
push_header_length_first(b, mode, raw_data_len, debug) ==
    IF length_bits_count(mode, b.version) > 16
       \/ raw_data_len >= Pow2(length_bits_count(mode, b.version))
    THEN Ret(b, "DataTooLong")
    ELSE Try(push_mode_indicator(b, mode, debug),
             LAMBDA b1 : push_number_checked(b1,
                                             length_bits_count(mode, b.version),
                                             raw_data_len))

\* Bits::push_header
push_header(b, mode, raw_data_len, debug) ==
    Try(push_mode_indicator(b, mode, debug),
        LAMBDA b1 : push_number_checked(b1,
                                        length_bits_count(mode, b.version),
                                        raw_data_len))

\* the value of a chunk of digits in the given base, as the u16 fold
\* `fold(0, |a, b| a * base + b)` computes it
RECURSIVE fold_digits(_, _, _)
fold_digits(digits, base, acc) ==
    IF digits = <<>> THEN acc
    ELSE fold_digits(Tail(digits), base, (acc * base + Head(digits)) % 65536)

\* the debug_assert at the head of push_number
push_number_assert(n, number) == n = 16 \/ (n < 16 /\ number < Pow2(n))

\* a wrong numeric_digit: the digits 1..9 counted from one less
numeric_digit_off(character) ==
    IF character = 48 THEN 0 ELSE (character - 49) % 256

\* `*b - b'0'` on a u8, as a build without overflow checks computes it
numeric_digit(character) == (character - 48) % 256

\* one iteration of the loop of push_numeric_data, on a chunk of 1..3
\* characters.  A build with overflow checks and debug assertions (debug)
\* panics where `*b - b'0'` underflows or the debug_assert of push_number
\* fails; the other build wraps and goes on.
push_numeric_chunk(b, chunk, debug) ==
    LET k == Len(chunk)
        number == fold_digits([i \in 1 .. k |-> numeric_digit(chunk[i])],
                              10, 0)
        length == k * 3 + 1
    IN  IF debug /\ ((\E i \in 1 .. k : chunk[i] < 48)
                     \/ ~push_number_assert(length, number))
        THEN Ret(b, "Panic")
        ELSE Ret(push_number(b, length, number), "Ok")

\* the loop of push_numeric_data over data.chunks(3): the chunks are taken
\* in order, a first run of them and then the rest (halving keeps the
\* evaluation shallow on long data).
RECURSIVE push_numeric_chunks(_, _, _)
push_numeric_chunks(b, data, debug) ==
    IF data = <<>> THEN Ret(b, "Ok")
    ELSE IF Len(data) <= 3 THEN push_numeric_chunk(b, data, debug)
    ELSE Try(push_numeric_chunks(
                 b, SubSeq(data, 1, 3 * (((Len(data) + 2) \div 3) \div 2)),
                 debug),
             LAMBDA b1 :
                 push_numeric_chunks(
                     b1,
                     SubSeq(data, 3 * (((Len(data) + 2) \div 3) \div 2) + 1,
                            Len(data)),
                     debug))

\* Bits::push_numeric_data
push_numeric_data(b, data, debug) ==
    Try(push_header(b, "Numeric", Len(data), debug),
        LAMBDA b1 : push_numeric_chunks(b1, data, debug))

\* a wrong alphanumeric_digit: the letters start at 0 as the digits do
alphanumeric_digit_letters(character) ==
    CASE character \in 48 .. 57 -> character - 48
      [] character \in 65 .. 90 -> character - 65
      [] OTHER -> 0

\* alphanumeric_digit : an unknown character maps to 0
alphanumeric_digit(character) ==
    CASE character \in 48 .. 57 -> character - 48
      [] character \in 65 .. 90 -> (character - 65) + 10
      [] character = 32 -> 36
      [] character = 36 -> 37
      [] character = 37 -> 38
      [] character = 42 -> 39
      [] character = 43 -> 40
      [] character = 45 -> 41
      [] character = 46 -> 42
      [] character = 47 -> 43
      [] character = 58 -> 44
      [] OTHER -> 0

\* a wrong loop body of push_alphanumeric_data: six bits a character
push_alphanumeric_chunk_wide(b, chunk) ==
    push_number(b, Len(chunk) * 6,
                fold_digits([i \in 1 .. Len(chunk) |->
                                 alphanumeric_digit(chunk[i])], 45, 0))

\* one iteration of the loop of push_alphanumeric_data, on a chunk of 1..2
\* characters
push_alphanumeric_chunk(b, chunk) ==
    LET k == Len(chunk)
        number == fold_digits(
                      [i \in 1 .. k |-> alphanumeric_digit(chunk[i])], 45, 0)
        length == k * 5 + 1
    IN  push_number(b, length, number)

\* the loop of push_alphanumeric_data over data.chunks(2) and the Ok(())
\* after it: a first run of the chunks, and when that is done the rest
RECURSIVE push_alphanumeric_chunks(_, _)
push_alphanumeric_chunks(b, data) ==
    IF data = <<>> THEN Ret(b, "Ok")
    ELSE IF Len(data) <= 2 THEN Ret(push_alphanumeric_chunk(b, data), "Ok")
    ELSE Try(push_alphanumeric_chunks(
                 b, SubSeq(data, 1, 2 * (((Len(data) + 1) \div 2) \div 2))),
             LAMBDA b1 :
                 push_alphanumeric_chunks(
                     b1,
                     SubSeq(data, 2 * (((Len(data) + 1) \div 2) \div 2) + 1,
                            Len(data))))

\* Bits::push_alphanumeric_data
push_alphanumeric_data(b, data, debug) ==
    Try(push_header(b, "Alphanumeric", Len(data), debug),
        LAMBDA b1 : push_alphanumeric_chunks(b1, data))

\* the loop of push_byte_data and the Ok(()) after it: a first run of the
\* bytes, and when that is done the rest
RECURSIVE push_byte_loop(_, _)
push_byte_loop(b, data) ==
    IF data = <<>> THEN Ret(b, "Ok")
    ELSE IF Len(data) = 1 THEN Ret(push_number(b, 8, data[1]), "Ok")
    ELSE Try(push_byte_loop(b, SubSeq(data, 1, Len(data) \div 2)),
             LAMBDA b1 :
                 push_byte_loop(b1, SubSeq(data, Len(data) \div 2 + 1,
                                           Len(data))))

\* Bits::push_byte_data
push_byte_data(b, data, debug) ==
    Try(push_header(b, "Byte", Len(data), debug),
        LAMBDA b1 : push_byte_loop(b1, data))

\* the value push_kanji_data computes for one byte pair (u16, the
\* subtraction wrapping as in a build without overflow checks)
kanji_number(b0, b1) ==
    LET cp == (b0 * 256 + b1) % 65536
        bytes == IF cp < 57408 THEN (cp - 33088) % 65536
                 ELSE (cp - 49472) % 65536
    IN  (Shr(bytes, 8) * 192 + (bytes % 256)) % 65536

\* a wrong loop body of push_kanji_data: a chunk of one byte is passed over
push_kanji_chunk_lenient(b, chunk, debug) ==
    IF Len(chunk) # 2 THEN Ret(b, "Ok")
    ELSE IF debug /\ (chunk[1] * 256 + chunk[2] < 33088
                      \/ ~push_number_assert(13, kanji_number(chunk[1],
                                                               chunk[2])))
    THEN Ret(b, "Panic")
    ELSE Ret(push_number(b, 13, kanji_number(chunk[1], chunk[2])), "Ok")

\* one iteration of the loop of push_kanji_data, on a chunk of 1..2 bytes:
\* a chunk of one byte returns Err(InvalidCharacter).  A build with overflow
\* checks and debug assertions (debug) panics where `cp - 0x8140`
\* underflows or the debug_assert of push_number fails.
push_kanji_chunk(b, chunk, debug) ==
    IF Len(chunk) # 2 THEN Ret(b, "InvalidCharacter")
    ELSE LET number == kanji_number(chunk[1], chunk[2])
         IN  IF debug /\ (chunk[1] * 256 + chunk[2] < 33088
                          \/ ~push_number_assert(13, number))
             THEN Ret(b, "Panic")
             ELSE Ret(push_number(b, 13, number), "Ok")

\* the loop of push_kanji_data over data.chunks(2), a first run of the
\* chunks and then the rest; the first failing chunk ends the call and
\* leaves what was pushed before it.
RECURSIVE push_kanji_chunks(_, _, _)
push_kanji_chunks(b, data, debug) ==
    IF data = <<>> THEN Ret(b, "Ok")
    ELSE IF Len(data) <= 2 THEN push_kanji_chunk(b, data, debug)
    ELSE Try(push_kanji_chunks(
                 b, SubSeq(data, 1, 2 * (((Len(data) + 1) \div 2) \div 2)),
                 debug),
             LAMBDA b1 :
                 push_kanji_chunks(
                     b1,
                     SubSeq(data, 2 * (((Len(data) + 1) \div 2) \div 2) + 1,
                            Len(data)),
                     debug))

\* Bits::push_kanji_data
push_kanji_data(b, data, debug) ==
    Try(push_header(b, "Kanji", Len(data) \div 2, debug),
        LAMBDA b1 : push_kanji_chunks(b1, data, debug))

\* a wrong terminator width: none
terminator_size_zero(version) == 0

\* the terminator width chosen at the head of push_terminator
\* (a u8; a * 2 + 1 wraps in a build without overflow checks)
terminator_size(version) ==
    CASE version.kind = "Micro" -> (version.a * 2 + 1) % 256
      [] version.kind = "Rmqr" -> 3
      [] OTHER -> 4

\* push_terminator: a * 2 + 1 leaves the range of u8
terminator_overflow(version) ==
    version.kind = "Micro" /\ version.a * 2 + 1 > 255

\* a wrong padding: one byte too many
padding_one_more(count) ==
    [i \in 1 .. (count + 1) |-> IF i % 2 = 1 THEN 236 ELSE 17]

\* a wrong padding: the cycle starts at 0x11
padding_from_11(count) == [i \in 1 .. count |-> IF i % 2 = 1 THEN 17 ELSE 236]

\* PADDING_BYTES.iter().cloned().cycle().take(count)
padding(count) == [i \in 1 .. count |-> IF i % 2 = 1 THEN 236 ELSE 17]

\* push_terminator: the terminator, `size` zero bits when size > 0
push_zero_bits(b, size) == IF size > 0 THEN push_number(b, size, 0) ELSE b

\* push_terminator: the first `if self.len() < data_length`, which drops
\* the bit offset and extends the bytes to data_length / 8 with the padding
push_padding(b, data_length) ==
    IF len(b) < data_length
    THEN [b EXCEPT !.bit_offset = 0,
                   !.data = b.data \o
                            padding(IF data_length \div 8 > Len(b.data)
                                    THEN data_length \div 8 - Len(b.data)
                                    ELSE 0)]
    ELSE b

\* push_terminator: the second `if self.len() < data_length`
push_last_byte(b, data_length) ==
    IF len(b) < data_length THEN [b EXCEPT !.data = Append(b.data, 0)] ELSE b

\* push_terminator, given cur_length and data_length (-1: max_len failed)
terminate(b, cur_length, data_length) ==
    IF data_length = -1 THEN Ret(b, "InvalidVersion")
    ELSE IF cur_length > data_length THEN Ret(b, "DataTooLong")
    ELSE Ret(push_last_byte(
                 push_padding(
                     push_zero_bits(b, Min(terminator_size(b.version),
                                           data_length - cur_length)),
                     data_length),
                 data_length),
             "Ok")

\* Bits::push_terminator
push_terminator(b, ec_level, debug) ==
    IF debug /\ terminator_overflow(b.version) THEN Ret(b, "Panic")
    ELSE terminate(b, len(b), max_len(b, ec_level))

(***************************************************************************)
(* coding module (Parser, Optimizer, total_encoded_len): the callers in    *)
(* bits.rs use it on the whole input.  The inputs of this model are of one *)
(* character class, for which the parser yields one segment and the        *)
(* optimizer has nothing to merge.                                         *)
(***************************************************************************)
\* the smallest mode a byte belongs to (a Shift-JIS lead byte starts a
\* double-byte Kanji character)
byte_class(character) ==
    CASE character \in 48 .. 57 -> "Numeric"
      [] character \in 65 .. 90 \/ character \in {32, 36, 37, 42, 43, 45, 46, 47, 58}
           -> "Alphanumeric"
      [] character \in 129 .. 159 \/ character \in 224 .. 235 -> "Kanji"
      [] OTHER -> "Byte"

\* Parser::new(data).collect() on data of one character class
Parser(data) ==
    IF data = <<>> THEN <<>>
    ELSE << [mode |-> byte_class(data[1]), begin |-> 0, end |-> Len(data)] >>

\* Optimizer::new(segments, version).collect() on at most one segment
Optimizer(segments, version) == segments

\* the number of characters of a segment, as the length field counts them
segment_chars(segment) ==
    IF segment.mode = "Kanji" THEN (segment.end - segment.begin) \div 2
    ELSE segment.end - segment.begin

\* total_encoded_len
RECURSIVE total_encoded_len(_, _)
total_encoded_len(segments, version) ==
    IF segments = <<>> THEN 0
    ELSE LET segment == Head(segments)
         IN  mode_bits_count(version)
             + length_bits_count(segment.mode, version)
             + data_bits_count(segment.mode, segment_chars(segment))
             + total_encoded_len(Tail(segments), version)

(***************************************************************************)
(* bits.rs : push_segments and the automatic version search                *)
(***************************************************************************)
\* Bits::push_segments
RECURSIVE push_segments(_, _, _, _)
push_segments(b, data, segments, debug) ==
    IF segments = <<>> THEN Ret(b, "Ok")
    ELSE Try(CASE Head(segments).mode = "Numeric" ->
                    push_numeric_data(
                        b, SubSeq(data, Head(segments).begin + 1,
                                  Head(segments).end), debug)
               [] Head(segments).mode = "Alphanumeric" ->
                    push_alphanumeric_data(
                        b, SubSeq(data, Head(segments).begin + 1,
                                  Head(segments).end), debug)
               [] Head(segments).mode = "Byte" ->
                    push_byte_data(
                        b, SubSeq(data, Head(segments).begin + 1,
                                  Head(segments).end), debug)
               [] OTHER ->
                    push_kanji_data(
                        b, SubSeq(data, Head(segments).begin + 1,
                                  Head(segments).end), debug),
             LAMBDA b1 : push_segments(b1, data, Tail(segments), debug))

\* the while loop of find_min_version; `top` is the largest index of
\* DATA_LENGTHS read so far
RECURSIVE find_min_loop(_, _, _, _, _)
find_min_loop(base, size, top, length, ec_level) ==
    IF size > 1
    THEN LET half == size \div 2
             mid == base + half
             nbase == IF DATA_LENGTHS[mid + 1][ec_level + 1] > length
                      THEN base ELSE mid
         IN  find_min_loop(nbase, size - half,
                           IF mid > top THEN mid ELSE top, length, ec_level)
    ELSE [base |-> base, top |-> IF base > top THEN base ELSE top]

\* a wrong find_min_version: a version the length fills exactly is passed
\* over
find_min_search_strict(length, ec_level) ==
    LET l == find_min_loop(0, 39, 0, length, ec_level)
        base == IF DATA_LENGTHS[l.base + 1][ec_level + 1] > length
                THEN l.base ELSE l.base + 1
    IN  [version |-> Normal(base + 1), top |-> l.top]

\* find_min_version, with the largest table index it read
find_min_search(length, ec_level) ==
    LET l == find_min_loop(0, 39, 0, length, ec_level)
        base == IF DATA_LENGTHS[l.base + 1][ec_level + 1] >= length
                THEN l.base ELSE l.base + 1
    IN  [version |-> Normal(base + 1), top |-> l.top]

\* a wrong find_min_version: the version after the smallest that fits
find_min_version_next(length, ec_level) ==
    Normal(Min(find_min_search(length, ec_level).version.a + 1, 40))

\* find_min_version
find_min_version(length, ec_level) == find_min_search(length, ec_level).version

\* the body both encoders run once the version is chosen: Bits::new,
\* push_segments(..)? and push_terminator(..)?
build(version, data, opt_segments, ec_level, debug) ==
    Try(push_segments(new(version), data, opt_segments, debug),
        LAMBDA b1 : push_terminator(b1, ec_level, debug))

\* a result together with the total_len the encoder accepted
with_total_len(r, total_len) ==
    [b |-> r.b, res |-> r.res, total_len |-> total_len]

\* the loop of encode_auto over Normal(9), Normal(26), Normal(40)
RECURSIVE encode_auto_loop(_, _, _, _, _)
encode_auto_loop(data, ec_level, segments, versions, debug) ==
    IF versions = <<>>
    THEN with_total_len(Ret(new(Normal(40)), "DataTooLong"), 0)
    ELSE IF total_encoded_len(Optimizer(segments, Head(versions)),
                              Head(versions))
              <= fetch(Head(versions), ec_level, DATA_LENGTHS)
    THEN with_total_len(
             build(find_min_version(
                       total_encoded_len(Optimizer(segments, Head(versions)),
                                         Head(versions)),
                       ec_level),
                   data, Optimizer(segments, Head(versions)), ec_level,
                   debug),
             total_encoded_len(Optimizer(segments, Head(versions)),
                               Head(versions)))
    ELSE encode_auto_loop(data, ec_level, segments, Tail(versions), debug)

\* a wrong encode_auto: the loop ends with Normal(26)
encode_auto_to_26(data, ec_level, debug) ==
    encode_auto_loop(data, ec_level, Parser(data),
                     <<Normal(9), Normal(26)>>, debug)

\* encode_auto : the result, the Bits built, and the total_len accepted
encode_auto(data, ec_level, debug) ==
    encode_auto_loop(data, ec_level, Parser(data),
                     <<Normal(9), Normal(26), Normal(40)>>, debug)

\* the nested loops of encode_auto_rmqr: widths outermost, the first height
\* that fits ends the inner loop; a failing fetch ends the call.
RECURSIVE rmqr_scan(_, _, _, _, _)
rmqr_scan(wi, hi, possible_versions, segments, ec_level) ==
    IF wi > Len(rmqr_all_width) THEN [res |-> "Ok", versions |-> possible_versions]
    ELSE IF hi > Len(rmqr_all_height)
    THEN rmqr_scan(wi + 1, 1, possible_versions, segments, ec_level)
    ELSE LET version == Rmqr(rmqr_all_height[hi], rmqr_all_width[wi])
         IN  IF ~is_rmqr(version)
             THEN rmqr_scan(wi, hi + 1, possible_versions, segments, ec_level)
             ELSE LET opt_segments == Optimizer(segments, version)
                      total_len == total_encoded_len(opt_segments, version)
                      data_capacity == fetch(version, ec_level, DATA_LENGTHS)
                  IN  IF data_capacity = -1
                      THEN [res |-> "InvalidVersion",
                            versions |-> possible_versions]
                      ELSE IF total_len <= data_capacity
                      THEN rmqr_scan(wi + 1, 1,
                                     Append(possible_versions, version),
                                     segments, ec_level)
                      ELSE rmqr_scan(wi, hi + 1, possible_versions,
                                     segments, ec_level)

\* the key RmqrStrategy::Height / Area minimises
strategy_key(strategy, version) ==
    IF strategy = "Height" THEN height(version) ELSE area(version)

\* Iterator::min_by_key : the first of the elements with the least key
min_by_key(versions, strategy) ==
    LET least == CHOOSE i \in 1 .. Len(versions) :
                   /\ \A j \in 1 .. Len(versions) :
                        strategy_key(strategy, versions[i])
                          <= strategy_key(strategy, versions[j])
                   /\ \A j \in 1 .. (i - 1) :
                        strategy_key(strategy, versions[j])
                          > strategy_key(strategy, versions[i])
    IN  versions[least]

\* a wrong match on strategy: the first version whatever the strategy
select_first(possible_versions, strategy) == possible_versions[1]

\* the match on strategy in encode_auto_rmqr (possible_versions non-empty)
select_version(possible_versions, strategy) ==
    IF strategy = "Width" THEN possible_versions[1]
    ELSE min_by_key(possible_versions, strategy)

Strategies == {"Width", "Height", "Area"}

\* encode_auto_rmqr after its loops: the match on strategy and the body
\* under `if let Some(version)`
rmqr_encode(scan, data, ec_level, strategy, debug) ==
    IF scan.res # "Ok" THEN Ret(new(Rmqr(17, 139)), scan.res)
    ELSE IF scan.versions = <<>>
    THEN Ret(new(Rmqr(17, 139)), "DataTooLong")
    ELSE build(select_version(scan.versions, strategy), data,
               Optimizer(Parser(data),
                         select_version(scan.versions, strategy)),
               ec_level, debug)

\* encode_auto_rmqr : the result and the Bits built
encode_auto_rmqr(data, ec_level, strategy, debug) ==
    rmqr_encode(rmqr_scan(1, 1, <<>>, Parser(data), ec_level), data,
                ec_level, strategy, debug)

\* Bits::push_optimal_data
push_optimal_data(b, data, debug) ==
    push_segments(b, data, Optimizer(Parser(data), b.version), debug)

(***************************************************************************)
(* lib.rs : QrCode.  The ec and canvas modules are not part of the source  *)
(* at hand: of construct_codewords only its error is modelled, and of the  *)
(* canvas the size of the module matrix it hands over, with colours that   *)
(* stand for whatever it drew.                                             *)
(***************************************************************************)
\* ec::construct_codewords : InvalidVersion unless the pair is tabulated
construct_codewords(data, version, ec_level) ==
    IF fetch(version, ec_level, DATA_LENGTHS) = -1 THEN "InvalidVersion"
    ELSE "Ok"

\* Canvas::new(version, ec_level) ... into_colors() : the modules of the
\* version.width x version.height grid, row by row
into_colors(version, pattern) ==
    [i \in 1 .. (width(version) * height(version)) |->
        IF (((i - 1) \div width(version)) + ((i - 1) % width(version))) % 2
             = pattern
        THEN "Dark" ELSE "Light"]

NoCode ==
    [content |-> <<>>, version |-> Normal(1), ec_level |-> 0, width |-> 0,
     height |-> 0]

\* QrCode::with_bits
with_bits(b, ec_level, pattern) ==
    IF construct_codewords(b.data, b.version, ec_level) # "Ok"
    THEN [b |-> b, res |-> construct_codewords(b.data, b.version, ec_level),
          code |-> NoCode]
    ELSE [b |-> b, res |-> "Ok",
          code |-> [content |-> into_colors(b.version, pattern),
                    version |-> b.version,
                    ec_level |-> ec_level,
                    width |-> width(b.version),
                    height |-> height(b.version)]]

\* QrCode::with_version
with_version(data, version, ec_level, debug, pattern) ==
    Try(push_optimal_data(new(version), data, debug),
        LAMBDA b1 : Try(push_terminator(b1, ec_level, debug),
                        LAMBDA b2 : with_bits(b2, ec_level, pattern)))

\* QrCode::with_error_correction_level
with_error_correction_level(data, ec_level, debug, pattern) ==
    Try(encode_auto(data, ec_level, debug),
        LAMBDA b1 : with_bits(b1, ec_level, pattern))

\* QrCode::rmqr_with_options
rmqr_with_options(data, ec_level, strategy, debug, pattern) ==
    Try(encode_auto_rmqr(data, ec_level, strategy, debug),
        LAMBDA b1 : with_bits(b1, ec_level, pattern))

\* QrCode::to_str : height lines of width characters
to_str(code, dark, light) ==
    [k \in 1 .. (code.height * (code.width + 1)) |->
        IF (k - 1) % (code.width + 1) = code.width THEN "\n"
        ELSE IF code.content[((k - 1) \div (code.width + 1)) * code.width
                             + ((k - 1) % (code.width + 1)) + 1] = "Dark"
        THEN dark ELSE light]

(***************************************************************************)
(* render.rs : the outline tracer of the SVG output.  A DirectedSegment is *)
(* [sx, sy, ex, ey]; the coordinates come from to_svg, 0 .. 176, so the    *)
(* i16 sums of from_coord and direction_to stay in range.                  *)
(***************************************************************************)
\* DirectedSegment::new
DirectedSegment(sx, sy, ex, ey) == [sx |-> sx, sy |-> sy, ex |-> ex, ey |-> ey]

\* DirectedSegment::from_coord : top, right, bottom and left side of a cell
from_coord(x, y) ==
    << DirectedSegment(x, y, x + 1, y),
       DirectedSegment(x + 1, y, x + 1, y + 1),
       DirectedSegment(x + 1, y + 1, x, y + 1),
       DirectedSegment(x, y + 1, x, y) >>

\* DirectedSegment::reversed
reversed(segment) ==
    DirectedSegment(segment.ex, segment.ey, segment.sx, segment.sy)

\* DirectedSegment::direction
direction(segment) ==
    IF segment.sx = segment.ex
    THEN IF segment.sy < segment.ey THEN "Down" ELSE "Up"
    ELSE IF segment.sx < segment.ex THEN "Right" ELSE "Left"

\* DirectedSegment::direction_to
direction_to(segment, dir) ==
    CASE dir = "Right" ->
           DirectedSegment(segment.ex, segment.ey, segment.ex + 1, segment.ey)
      [] dir = "Down" ->
           DirectedSegment(segment.ex, segment.ey, segment.ex, segment.ey + 1)
      [] dir = "Left" ->
           DirectedSegment(segment.ex, segment.ey, segment.ex - 1, segment.ey)
      [] dir = "Up" ->
           DirectedSegment(segment.ex, segment.ey, segment.ex, segment.ey - 1)

start_coord(segment) == <<segment.sx, segment.sy>>

end_coord(segment) == <<segment.ex, segment.ey>>

\* a wrong add_or_remove_segment: the segment is inserted whether or not its
\* reverse is in the set
insert_segment(set, segment) == set \cup {segment}

\* DirectedSegments::add_or_remove_segment
add_or_remove_segment(set, segment) ==
    IF reversed(segment) \in set THEN set \ {reversed(segment)}
    ELSE set \cup {segment}

\* DirectedSegments::add_or_remove : the four sides in turn
add_or_remove(set, x, y) ==
    add_or_remove_segment(
        add_or_remove_segment(
            add_or_remove_segment(
                add_or_remove_segment(set, from_coord(x, y)[1]),
                from_coord(x, y)[2]),
            from_coord(x, y)[3]),
        from_coord(x, y)[4])

\* a wrong alternative_segments: the straight continuation is left out
alternative_segments_turns(segment) ==
    CASE direction(segment) = "Right" ->
           << direction_to(segment, "Down"), direction_to(segment, "Up") >>
      [] direction(segment) = "Down" ->
           << direction_to(segment, "Left"), direction_to(segment, "Right") >>
      [] direction(segment) = "Left" ->
           << direction_to(segment, "Up"), direction_to(segment, "Down") >>
      [] direction(segment) = "Up" ->
           << direction_to(segment, "Right"), direction_to(segment, "Left") >>

\* DirectedSegments::alternative_segments
alternative_segments(segment) ==
    CASE direction(segment) = "Right" ->
           << direction_to(segment, "Down"), direction_to(segment, "Up"),
              direction_to(segment, "Right") >>
      [] direction(segment) = "Down" ->
           << direction_to(segment, "Left"), direction_to(segment, "Right"),
              direction_to(segment, "Down") >>
      [] direction(segment) = "Left" ->
           << direction_to(segment, "Up"), direction_to(segment, "Down"),
              direction_to(segment, "Left") >>
      [] direction(segment) = "Up" ->
           << direction_to(segment, "Right"), direction_to(segment, "Left"),
              direction_to(segment, "Up") >>

\* Option: None is <<>>, Some(x) is <<x>>
None == <<>>

Some(x) == <<x>>

\* DirectedSegments::pop_next : the first alternative that is in the set
pop_next(set, segment) ==
    IF \E i \in DOMAIN alternative_segments(segment) :
           alternative_segments(segment)[i] \in set
    THEN Some(alternative_segments(segment)[
             CHOOSE i \in DOMAIN alternative_segments(segment) :
                /\ alternative_segments(segment)[i] \in set
                /\ \A j \in 1 .. (i - 1) :
                      alternative_segments(segment)[j] \notin set])
    ELSE None

\* the `while let` loop of pop_corners, from current_segment on
RECURSIVE pop_corners_loop(_, _, _, _)
pop_corners_loop(set, start_segment, current_segment, corners) ==
    IF pop_next(set, current_segment) = None
    THEN [segments |-> set, current_segment |-> current_segment,
          corners |-> corners]
    ELSE LET next_segment == pop_next(set, current_segment)[1]
             pushed == IF direction(current_segment) # direction(next_segment)
                       THEN Append(corners, current_segment)
                       ELSE corners
         IN  IF end_coord(next_segment) = start_coord(start_segment)
             THEN [segments |-> set \ {next_segment},
                   current_segment |-> next_segment, corners |-> pushed]
             ELSE pop_corners_loop(set \ {next_segment}, start_segment,
                                   next_segment, pushed)

\* DirectedSegments::pop_corners when pop() has returned start_segment
pop_corners(set, start_segment) ==
    LET walked == pop_corners_loop(set \ {start_segment}, start_segment,
                                   start_segment, <<>>)
    IN  [segments |-> walked.segments,
         start_segment |-> start_segment,
         current_segment |-> walked.current_segment,
         corners |-> IF direction(walked.current_segment)
                          # direction(start_segment)
                     THEN Append(walked.corners, walked.current_segment)
                     ELSE walked.corners]

\* the corners as to_path_round_mut pairs them: each with the one before it,
\* the first one coming again after the last
RoundPairs(corners) ==
    {<<corners[i], corners[(i % Len(corners)) + 1]>> : i \in DOMAIN corners}

\* DirectedSegments::to_path_square_mut panics on corners[0] of an empty list
to_path_square_panics(corners) == corners = <<>>

\* DirectedSegments::to_path_round_mut panics on corners[0] of an empty list
\* and in the unreachable!() arms of dx and dy
to_path_round_panics(corners) ==
    \/ corners = <<>>
    \/ \E pair \in RoundPairs(corners) :
          \/ {direction(pair[1]), direction(pair[2])} \cap {"Left", "Right"}
                = {}
          \/ {direction(pair[1]), direction(pair[2])} \cap {"Up", "Down"} = {}

\* no cell added, nothing popped
NoSegment == DirectedSegment(0, 0, 0, 0)

NoTrace ==
    [at |-> "add", cells |-> {}, start_segment |-> NoSegment,
     current_segment |-> NoSegment, corners |-> <<>>]

(***************************************************************************)
(* The state machine: one Bits object and the calls made on it             *)
(***************************************************************************)
NoOut == [version |-> Normal(1), top |-> 0, total_len |-> 0]

NoCall(b) ==
    [op |-> "none", n |-> 0, number |-> 0, mode |-> "", other |-> "",
     data |-> <<>>, ec_level |-> 0, strategy |-> "", length |-> 0,
     res |-> "", result |-> "", pre |-> b, out |-> NoOut, code |-> NoCode]

\* the stream may grow while it holds at most MaxBits bits
MaxBits == 5

\* versions of the three families, tabulated and not
SpecVersions ==
    {Normal(1), Normal(27), Micro(1), Micro(2), Micro(3), Micro(4),
     Rmqr(7, 43), Rmqr(7, 27)}

\* (n, number) arguments of push_number_checked
PushArgs ==
    {<<0, 0>>, <<1, 1>>, <<3, 5>>, <<8, 165>>, <<13, 6844>>,
     <<16, 65535>>, <<16, 65536>>, <<17, 0>>}

\* "", "7", "42", "01234567", "0123456789012345"
NumericInputs ==
    {<<>>, <<55>>, <<52, 50>>, <<48, 49, 50, 51, 52, 53, 54, 55>>,
     <<48, 49, 50, 51, 52, 53, 54, 55, 56, 57, 48, 49, 50, 51, 52, 53>>}

\* "", "A", ":Z", "AC-42", "ABCDEFGH"
AlphanumericInputs ==
    {<<>>, <<65>>, <<58, 90>>, <<65, 67, 45, 52, 50>>,
     <<65, 66, 67, 68, 69, 70, 71, 72>>}

\* "", "?", "\x12\x34\x56\x78\x9a\xbc\xde\xf0"
ByteInputs ==
    {<<>>, <<63>>, <<18, 52, 86, 120, 154, 188, 222, 240>>}

\* "", "\x93\x5f", "\x93\x5f\xe4\xaa", "\xeb\xfc\x81\x40"
KanjiInputs ==
    {<<>>, <<147, 95>>, <<147, 95, 228, 170>>, <<235, 252, 129, 64>>}

Init ==
    /\ \E version \in SpecVersions : bits = new(version)
    /\ last = NoCall(bits)
    /\ calls = <<>>
    /\ pc = 0
    /\ directed_segments = {}
    /\ trace = NoTrace

\* a panic ends the program
Running == last.res # "Panic"

PushNumberChecked(n, number) ==
    /\ Running
    /\ len(bits) <= MaxBits
    /\ LET r == push_number_checked(bits, n, number)
       IN  /\ bits' = r.b
           /\ last' = [NoCall(bits) EXCEPT !.op = "push_number_checked",
                           !.n = n, !.number = number, !.res = r.res]
    /\ UNCHANGED <<calls, pc, render>>

PushModeIndicator(mode, debug) ==
    /\ Running
    /\ len(bits) <= MaxBits
    /\ LET r == push_mode_indicator(bits, mode, debug)
       IN  /\ bits' = r.b
           /\ last' = [NoCall(bits) EXCEPT !.op = "push_mode_indicator",
                           !.mode = mode, !.res = r.res]
    /\ UNCHANGED <<calls, pc, render>>

PushNumericData(data, debug) ==
    /\ Running
    /\ len(bits) <= MaxBits
    /\ LET r == push_numeric_data(bits, data, debug)
       IN  /\ bits' = r.b
           /\ last' = [NoCall(bits) EXCEPT !.op = "push_numeric_data",
                           !.mode = "Numeric", !.data = data, !.res = r.res]
    /\ UNCHANGED <<calls, pc, render>>

PushAlphanumericData(data, debug) ==
    /\ Running
    /\ len(bits) <= MaxBits
    /\ LET r == push_alphanumeric_data(bits, data, debug)
       IN  /\ bits' = r.b
           /\ last' = [NoCall(bits) EXCEPT !.op = "push_alphanumeric_data",
                           !.mode = "Alphanumeric", !.data = data,
                           !.res = r.res]
    /\ UNCHANGED <<calls, pc, render>>

PushByteData(data, debug) ==
    /\ Running
    /\ len(bits) <= MaxBits
    /\ LET r == push_byte_data(bits, data, debug)
       IN  /\ bits' = r.b
           /\ last' = [NoCall(bits) EXCEPT !.op = "push_byte_data",
                           !.mode = "Byte", !.data = data, !.res = r.res]
    /\ UNCHANGED <<calls, pc, render>>

PushKanjiData(data, debug) ==
    /\ Running
    /\ len(bits) <= MaxBits
    /\ LET r == push_kanji_data(bits, data, debug)
       IN  /\ bits' = r.b
           /\ last' = [NoCall(bits) EXCEPT !.op = "push_kanji_data",
                           !.mode = "Kanji", !.data = data, !.res = r.res]
    /\ UNCHANGED <<calls, pc, render>>

PushTerminator(ec_level, debug) ==
    /\ Running
    /\ LET r == push_terminator(bits, ec_level, debug)
       IN  /\ bits' = r.b
           /\ last' = [NoCall(bits) EXCEPT !.op = "push_terminator",
                           !.ec_level = ec_level, !.res = r.res]
    /\ UNCHANGED <<calls, pc, render>>

Next ==
    \/ \E a \in PushArgs : PushNumberChecked(a[1], a[2])
    \/ \E mode \in Modes, debug \in BOOLEAN : PushModeIndicator(mode, debug)
    \/ \E data \in NumericInputs, debug \in BOOLEAN :
           PushNumericData(data, debug)
    \/ \E data \in AlphanumericInputs, debug \in BOOLEAN :
           PushAlphanumericData(data, debug)
    \/ \E data \in ByteInputs, debug \in BOOLEAN : PushByteData(data, debug)
    \/ \E data \in KanjiInputs, debug \in BOOLEAN :
           PushKanjiData(data, debug)
    \/ \E ec_level \in EcLevels, debug \in BOOLEAN :
           PushTerminator(ec_level, debug)

Spec == Init /\ [][Next]_vars

(***************************************************************************)
(* SpecPush: push_number alone, called as test_push_number calls it        *)
(***************************************************************************)
\* push_number may be called while the stream holds at most MaxPushBits bits
MaxPushBits == 8

\* and at most MaxCalls times
MaxCalls == 4

\* (n, number) arguments that satisfy the debug_assert of push_number
PushNumberArgs ==
    {<<0, 0>>, <<1, 0>>, <<1, 1>>, <<2, 2>>, <<5, 21>>, <<8, 129>>,
     <<9, 257>>, <<13, 4113>>, <<15, 29411>>, <<16, 32769>>, <<16, 65535>>}

\* the eight calls of test_push_number
test_push_number ==
    << <<3, 2>>, <<3, 6>>, <<3, 5>>, <<7, 26>>, <<4, 12>>, <<12, 2925>>,
       <<10, 401>>, <<15, 29411>> >>

InitPush ==
    /\ bits = new(Normal(1))
    /\ last = NoCall(bits)
    /\ calls = <<>>
    /\ pc \in {0, 1}
    /\ directed_segments = {}
    /\ trace = NoTrace

PushNumber(n, number) ==
    /\ pc = 0
    /\ len(bits) <= MaxPushBits
    /\ Len(calls) < MaxCalls
    /\ bits' = push_number(bits, n, number)
    /\ last' = [NoCall(bits) EXCEPT !.op = "push_number", !.n = n,
                    !.number = number, !.res = "Ok"]
    /\ calls' = Append(calls, <<n, number>>)
    /\ UNCHANGED <<pc, render>>

TestPushNumber ==
    /\ pc \in 1 .. Len(test_push_number)
    /\ LET a == test_push_number[pc]
       IN  /\ bits' = push_number(bits, a[1], a[2])
           /\ last' = [NoCall(bits) EXCEPT !.op = "push_number", !.n = a[1],
                           !.number = a[2], !.res = "Ok"]
           /\ calls' = Append(calls, a)
    /\ pc' = pc + 1
    /\ UNCHANGED render

NextPush ==
    \/ \E a \in PushNumberArgs : PushNumber(a[1], a[2])
    \/ TestPushNumber

SpecPush == InitPush /\ [][NextPush]_vars

(***************************************************************************)
(* SpecTerm: push_terminator on every version, at every level, on streams  *)
(* that are empty, nearly empty, nearly full, full and overfull            *)
(***************************************************************************)
\* every Version of the tables, and some that are in no table
TermVersions ==
    {Normal(v) : v \in 0 .. 41} \cup {Micro(v) : v \in 0 .. 5}
    \cup {Rmqr(rmqr_all_height[h], rmqr_all_width[w]) :
              h \in 1 .. Len(rmqr_all_height), w \in 1 .. Len(rmqr_all_width)}

\* streams of at most TermHead bits,
TermHead == 40

\* streams that lack at most TermTail bits to a capacity of the version,
TermTail == 40

\* and streams that exceed a capacity by at most TermOver bits
TermOver == 1

TermLengths(version) ==
    (0 .. TermHead) \cup
    UNION {LET c == fetch(version, ec_level, DATA_LENGTHS)
           IN  IF c = -1 THEN {}
               ELSE {l \in (c - TermTail) .. (c + TermOver) : l >= 0} :
           ec_level \in EcLevels}

\* the Bits that `length` calls push_number_checked(1, 1) leave
filled(version, length) ==
    [data |-> [i \in 1 .. ((length + 7) \div 8) |->
                  IF 8 * i <= length THEN 255
                  ELSE 256 - Pow2(8 * i - length)],
     bit_offset |-> length % 8,
     version |-> version]

InitTerm ==
    /\ \E version \in TermVersions :
         \E length \in TermLengths(version) : bits = filled(version, length)
    /\ last = NoCall(bits)
    /\ calls = <<>>
    /\ pc = 0
    /\ directed_segments = {}
    /\ trace = NoTrace

\* one call of push_terminator on the stream as it was filled
TerminateOnce(ec_level, debug) ==
    /\ last.op = "none"
    /\ PushTerminator(ec_level, debug)

NextTerm ==
    \E ec_level \in EcLevels, debug \in BOOLEAN :
        TerminateOnce(ec_level, debug)

SpecTerm == InitTerm /\ [][NextTerm]_vars

(***************************************************************************)
(* SpecAuto: one call of find_min_version, encode_auto or encode_auto_rmqr *)
(***************************************************************************)
\* find_min_version is called with lengths up to FindOver bits more than
\* the capacity of Normal(40) at the level
FindOver == 1

\* the inputs of encode_auto and encode_auto_rmqr have 0..MaxChars characters
MaxChars == 48

\* and a few longer ones: the most bytes Normal(9) and Normal(26) hold at
\* level H and Normal(40) holds at level L, and one more than each
LongCounts == {98, 99, 593, 594, 2953, 2954}

Counts == (0 .. MaxChars) \cup LongCounts

\* an input of `count` characters of one class: digits, capital letters,
\* small letters, or the kanji 0x935F
input_data(mode, count) ==
    CASE mode = "Numeric" -> [i \in 1 .. count |-> 48 + (i % 10)]
      [] mode = "Alphanumeric" -> [i \in 1 .. count |-> 65 + (i % 26)]
      [] mode = "Byte" -> [i \in 1 .. count |-> 97 + (i % 26)]
      [] OTHER -> [i \in 1 .. 2 * count |-> IF i % 2 = 1 THEN 147 ELSE 95]

InitAuto ==
    /\ bits = new(Normal(1))
    /\ last = NoCall(bits)
    /\ calls = <<>>
    /\ pc = 0
    /\ directed_segments = {}
    /\ trace = NoTrace

\* one call is made, on a fresh state
Idle == last.op = "none"

FindMinVersion(length, ec_level) ==
    /\ Idle
    /\ LET r == find_min_search(length, ec_level)
       IN  last' = [NoCall(bits) EXCEPT !.op = "find_min_version",
                        !.length = length, !.ec_level = ec_level,
                        !.res = "Ok",
                        !.out = [version |-> find_min_version(length, ec_level),
                                 top |-> r.top, total_len |-> length]]
    /\ UNCHANGED <<bits, calls, pc, render>>

\* the call returns r: on Err the caller gets no Bits
Returned(call, r) ==
    /\ bits' = IF r.res = "Ok" THEN r.b ELSE bits
    /\ last' = [call EXCEPT !.res = r.res,
                            !.out = [NoOut EXCEPT !.total_len =
                                        IF "total_len" \in DOMAIN r
                                        THEN r.total_len ELSE 0]]
    /\ UNCHANGED <<calls, pc, render>>

EncodeAuto(data, ec_level, debug) ==
    /\ Idle
    /\ Returned([NoCall(bits) EXCEPT !.op = "encode_auto", !.data = data,
                                     !.ec_level = ec_level],
                encode_auto(data, ec_level, debug))

EncodeAutoRmqr(data, ec_level, strategy, debug) ==
    /\ Idle
    /\ Returned([NoCall(bits) EXCEPT !.op = "encode_auto_rmqr",
                                     !.data = data, !.ec_level = ec_level,
                                     !.strategy = strategy],
                encode_auto_rmqr(data, ec_level, strategy, debug))

\* Bits::new(version).max_len(ec_level); last.length is the value
MaxLen(version, ec_level) ==
    /\ Idle
    /\ bits' = new(version)
    /\ last' = [NoCall(bits) EXCEPT !.op = "max_len", !.ec_level = ec_level,
                    !.length = max_len(new(version), ec_level),
                    !.res = IF max_len(new(version), ec_level) = -1
                            THEN "InvalidVersion" ELSE "Ok"]
    /\ UNCHANGED <<calls, pc, render>>

NextAuto ==
    \/ /\ Idle
       /\ \E version \in TermVersions, ec_level \in EcLevels :
              MaxLen(version, ec_level)
    \/ /\ Idle
       /\ \E ec_level \in EcLevels :
            \E length \in 0 .. (DATA_LENGTHS[40][ec_level + 1] + FindOver) :
              FindMinVersion(length, ec_level)
    \/ /\ Idle
       /\ \E mode \in Modes, count \in Counts, ec_level \in EcLevels,
             strategy \in Strategies, debug \in BOOLEAN :
              EncodeAutoRmqr(input_data(mode, count), ec_level, strategy,
                             debug)
    \/ /\ Idle
       /\ \E mode \in Modes, count \in Counts, ec_level \in EcLevels,
             debug \in BOOLEAN :
              EncodeAuto(input_data(mode, count), ec_level, debug)

SpecAuto == InitAuto /\ [][NextAuto]_vars

(***************************************************************************)
(* SpecCall: one call of a method of Bits, of Version::fetch or of         *)
(* Mode::max, on every kind of Version and in both builds                  *)
(***************************************************************************)
\* the versions of SpecTerm, and Micro versions whose u8 arithmetic
\* overflows
CallVersions == TermVersions \cup {Micro(128), Micro(255)}

\* the stream holds 0..CallHead bits before the call
CallHead == 2

\* the inputs have 0..CallChars characters,
CallChars == 9

\* and, where the length field of the mode has at most CallLengthBits
\* bits, also one fewer than it can count and as many as it cannot
CallLengthBits == 8

CallCounts(mode, version) ==
    (0 .. CallChars) \cup
    (IF length_bits_count(mode, version) <= CallLengthBits
     THEN {Pow2(length_bits_count(mode, version)) - 1,
           Pow2(length_bits_count(mode, version))}
     ELSE {})

\* bytes that are no digits: ' ', '/', ':', 'A'
NonDigits == {32, 47, 58, 65}

\* bytes outside the alphanumeric set: '!', 'a', 0xff
NonAlphanumerics == {33, 97, 255}

\* byte pairs that are no Shift JIS kanji: below 0x8140, and 0xebfc
NonKanji == {<<0, 0>>, <<129, 63>>, <<235, 252>>}

\* the inputs of a mode: of the class of the mode, and short ones with a
\* byte (a byte pair) that is not of the class put first or last
CallInputs(mode, version) ==
    {input_data(mode, count) : count \in CallCounts(mode, version)}
    \cup
    CASE mode = "Numeric" ->
           {[input_data(mode, count) EXCEPT ![p] = x] :
                <<count, p, x>> \in
                    {t \in (1 .. CallChars) \X (1 .. CallChars) \X NonDigits :
                         t[2] \in {1, t[1]}}}
      [] mode = "Alphanumeric" ->
           {[input_data(mode, count) EXCEPT ![p] = x] :
                <<count, p, x>> \in
                    {t \in (1 .. CallChars) \X (1 .. CallChars)
                               \X NonAlphanumerics :
                         t[2] \in {1, t[1]}}}
      [] mode = "Byte" -> {}
      [] OTHER ->
           {Append(input_data(mode, count), 147) :
                count \in CallCounts(mode, version)}
           \cup {input_data(mode, count) \o x :
                     <<count, x>> \in (0 .. CallChars) \X NonKanji}
           \cup {x \o input_data(mode, count) \o <<147>> :
                     <<count, x>> \in (0 .. CallChars) \X NonKanji}
           \cup {x \o input_data(mode, count) :
                     <<count, x>> \in (0 .. CallChars) \X NonKanji}

\* push_number_checked is called with widths 0..CallWidth
CallWidth == 18

\* and with the numbers around the largest one the width holds
CallNumbers(n) == {0, 1, Pow2(n) - 1, Pow2(n), Pow2(n) + 1, 65535, 65536}

InitCall ==
    /\ \E version \in CallVersions, length \in 0 .. CallHead :
         bits = filled(version, length)
    /\ last = NoCall(bits)
    /\ calls = <<>>
    /\ pc = 0
    /\ directed_segments = {}
    /\ trace = NoTrace

\* Version::fetch on the version of the stream; last.length is the value
Fetch(ec_level) ==
    /\ Idle
    /\ LET c == fetch(bits.version, ec_level, DATA_LENGTHS)
       IN  last' = [NoCall(bits) EXCEPT !.op = "fetch",
                        !.ec_level = ec_level, !.length = c,
                        !.res = IF c = -1 THEN "InvalidVersion" ELSE "Ok"]
    /\ UNCHANGED <<bits, calls, pc, render>>

\* Mode::max
ModeMax(self, other) ==
    /\ Idle
    /\ last' = [NoCall(bits) EXCEPT !.op = "max", !.mode = self,
                    !.other = other, !.result = max(self, other),
                    !.res = "Ok"]
    /\ UNCHANGED <<bits, calls, pc, render>>

NextCall ==
    \/ /\ Idle
       /\ \E n \in 0 .. CallWidth :
            \E number \in CallNumbers(n) : PushNumberChecked(n, number)
    \/ /\ Idle
       /\ \E mode \in Modes, debug \in BOOLEAN :
              PushModeIndicator(mode, debug)
    \/ /\ Idle
       /\ \E data \in CallInputs("Numeric", bits.version),
             debug \in BOOLEAN : PushNumericData(data, debug)
    \/ /\ Idle
       /\ \E data \in CallInputs("Alphanumeric", bits.version),
             debug \in BOOLEAN : PushAlphanumericData(data, debug)
    \/ /\ Idle
       /\ \E data \in CallInputs("Byte", bits.version),
             debug \in BOOLEAN : PushByteData(data, debug)
    \/ /\ Idle
       /\ \E data \in CallInputs("Kanji", bits.version),
             debug \in BOOLEAN : PushKanjiData(data, debug)
    \/ /\ Idle
       /\ \E ec_level \in EcLevels, debug \in BOOLEAN :
              PushTerminator(ec_level, debug)
    \/ /\ Idle
       /\ \E ec_level \in EcLevels : Fetch(ec_level)
    \/ /\ Idle
       /\ \E self \in Modes, other \in Modes : ModeMax(self, other)

SpecCall == InitCall /\ [][NextCall]_vars

(***************************************************************************)
(* SpecKanji: one call of push_kanji_data with one byte pair, for every    *)
(* pair from 0x8140 to 0xebfc                                              *)
(***************************************************************************)
\* the versions the pair is pushed into
KanjiVersions == {Normal(1), Rmqr(7, 43)}

\* the stream holds 0..KanjiHead bits before the call
KanjiHead == 1

\* the first bytes and the second bytes of the pairs
KanjiLeads == 129 .. 235

KanjiTrails == 64 .. 252

InitKanji ==
    /\ \E version \in KanjiVersions, length \in 0 .. KanjiHead :
         bits = filled(version, length)
    /\ last = NoCall(bits)
    /\ calls = <<>>
    /\ pc = 0
    /\ directed_segments = {}
    /\ trace = NoTrace

NextKanji ==
    /\ Idle
    /\ \E b0 \in KanjiLeads, b1 \in KanjiTrails, debug \in BOOLEAN :
           PushKanjiData(<<b0, b1>>, debug)

SpecKanji == InitKanji /\ [][NextKanji]_vars

(***************************************************************************)
(* SpecCode: one QrCode is made, by with_version, by                       *)
(* with_error_correction_level or by rmqr_with_options                     *)
(***************************************************************************)
\* the inputs have 0..CodeChars characters of one class
CodeChars == 2

CodeInputs ==
    {input_data(mode, count) : mode \in Modes, count \in 0 .. CodeChars}

\* the versions asked of with_version: of every kind, the smallest and
\* larger ones, and versions that are not tabulated
CodeVersions ==
    {Normal(v) : v \in {0, 1, 2, 3, 7, 41}} \cup {Micro(v) : v \in 0 .. 5}
    \cup {Rmqr(7, 27), Rmqr(7, 43), Rmqr(13, 27), Rmqr(15, 59),
          Rmqr(17, 139)}

\* the colourings the canvas is let to hand over
Patterns == {0, 1}

InitCode ==
    /\ bits = new(Normal(1))
    /\ last = NoCall(bits)
    /\ calls = <<>>
    /\ pc = 0
    /\ directed_segments = {}
    /\ trace = NoTrace

\* the call returns r: on Err the caller gets no QrCode
Made(call, r) ==
    /\ bits' = IF r.res = "Ok" THEN r.b ELSE bits
    /\ last' = [call EXCEPT !.res = r.res,
                            !.code = IF "code" \in DOMAIN r THEN r.code
                                     ELSE NoCode]
    /\ UNCHANGED <<calls, pc, render>>

WithVersion(data, version, ec_level, debug, pattern) ==
    /\ Idle
    /\ Made([NoCall(bits) EXCEPT !.op = "with_version", !.data = data,
                                 !.ec_level = ec_level,
                                 !.out = [NoOut EXCEPT !.version = version]],
            with_version(data, version, ec_level, debug, pattern))

WithErrorCorrectionLevel(data, ec_level, debug, pattern) ==
    /\ Idle
    /\ Made([NoCall(bits) EXCEPT !.op = "with_error_correction_level",
                                 !.data = data, !.ec_level = ec_level],
            with_error_correction_level(data, ec_level, debug, pattern))

RmqrWithOptions(data, ec_level, strategy, debug, pattern) ==
    /\ Idle
    /\ Made([NoCall(bits) EXCEPT !.op = "rmqr_with_options", !.data = data,
                                 !.ec_level = ec_level,
                                 !.strategy = strategy],
            rmqr_with_options(data, ec_level, strategy, debug, pattern))

NextCode ==
    \/ /\ Idle
       /\ \E data \in CodeInputs, version \in CodeVersions,
             ec_level \in EcLevels, debug \in BOOLEAN,
             pattern \in Patterns :
              WithVersion(data, version, ec_level, debug, pattern)
    \/ /\ Idle
       /\ \E data \in CodeInputs, ec_level \in EcLevels, debug \in BOOLEAN,
             pattern \in Patterns :
              WithErrorCorrectionLevel(data, ec_level, debug, pattern)
    \/ /\ Idle
       /\ \E data \in CodeInputs, ec_level \in EcLevels,
             strategy \in Strategies, debug \in BOOLEAN,
             pattern \in Patterns :
              RmqrWithOptions(data, ec_level, strategy, debug, pattern)

SpecCode == InitCode /\ [][NextCode]_vars

(***************************************************************************)
(* SpecRender: to_svg adds the dark cells of a small module grid to a new  *)
(* DirectedSegments, then to_path_square_mut / to_path_round_mut pop the   *)
(* outlines.  The cells are added in any order and the grid may hold any   *)
(* set of dark cells; pop() takes any segment of the hash set.             *)
(***************************************************************************)
GridWidth == 3

GridHeight == 3

Cells == (0 .. (GridWidth - 1)) \X (0 .. (GridHeight - 1))

InitRender ==
    /\ bits = new(Normal(1))
    /\ last = NoCall(bits)
    /\ calls = <<>>
    /\ pc = 0
    /\ directed_segments = {}
    /\ trace = NoTrace

\* to_svg finds the cell dark: directed_segments.add_or_remove(x, y)
AddOrRemove(x, y) ==
    /\ trace.at = "add"
    /\ <<x, y>> \notin trace.cells
    /\ directed_segments' = add_or_remove(directed_segments, x, y)
    /\ trace' = [trace EXCEPT !.cells = trace.cells \cup {<<x, y>>}]
    /\ UNCHANGED <<bits, last, calls, pc>>

\* pop_corners_list: pop() returns start_segment and pop_corners an outline
PopCorners(start_segment) ==
    /\ trace.at \in {"add", "pop"}
    /\ start_segment \in directed_segments
    /\ directed_segments' =
          pop_corners(directed_segments, start_segment).segments
    /\ trace' =
          [at |-> "pop", cells |-> trace.cells,
           start_segment |-> start_segment,
           current_segment |->
              pop_corners(directed_segments, start_segment).current_segment,
           corners |-> pop_corners(directed_segments, start_segment).corners]
    /\ UNCHANGED <<bits, last, calls, pc>>

\* pop_corners_list: pop() returns None and the loop ends
PopCornersListEnds ==
    /\ trace.at \in {"add", "pop"}
    /\ directed_segments = {}
    /\ trace' = [trace EXCEPT !.at = "done"]
    /\ UNCHANGED <<bits, last, calls, pc, directed_segments>>

NextRender ==
    \/ \E cell \in Cells : AddOrRemove(cell[1], cell[2])
    \/ \E start_segment \in directed_segments : PopCorners(start_segment)
    \/ PopCornersListEnds

SpecRender == InitRender /\ [][NextRender]_vars

(***************************************************************************)
(* Reading a stream bit by bit                                             *)
(***************************************************************************)
\* the bytes read most-significant bit first
BytesToBits(data) ==
    [i \in 1 .. 8 * Len(data) |->
        BitOf(data[((i - 1) \div 8) + 1], 7 - ((i - 1) % 8))]

\* the len(b) bits pushed into b
StreamBits(b) == SubSeq(BytesToBits(b.data), 1, len(b))

\* the n-bit big-endian representation of v
BigEndian(n, v) == [i \in 1 .. n |-> BitOf(v, n - i)]

Zeros(n) == [i \in 1 .. n |-> 0]

\* a bit sequence filled with zero bits up to a byte boundary
ZeroFill(s) == s \o Zeros((8 - (Len(s) % 8)) % 8)

RECURSIVE ConcatCalls(_)
ConcatCalls(cs) ==
    IF cs = <<>> THEN <<>>
    ELSE BigEndian(Head(cs)[1], Head(cs)[2]) \o ConcatCalls(Tail(cs))

(***************************************************************************)
(* Claims                                                                  *)
(***************************************************************************)
\* C6: after any sequence of push_number calls (n, v) with 1 <= n <= 16 and
\* v < 2^n (or n = 16) on a fresh Bits, the byte vector read
\* most-significant bit first is the concatenation of the n-bit big-endian
\* representations of the v in call order (zero bits up to the byte
\* boundary), at whatever bit offsets the pushes start; and the eight pushes
\* of test_push_number give 5A 9A CB 6D 64 79 71 80.
C6_BigEndianConcat ==
    /\ (\A i \in 1 .. Len(calls) : calls[i][1] >= 1)
          => /\ BytesToBits(bits.data) = ZeroFill(ConcatCalls(calls))
             /\ StreamBits(bits) = ConcatCalls(calls)
    /\ pc = Len(test_push_number) + 1
          => bits.data = <<90, 154, 203, 109, 100, 121, 113, 128>>

\* C6 witness: a push that starts inside a byte and ends two bytes later has
\* been made, and the unit test has run to its end
C6_Witness ==
    /\ pc = Len(test_push_number) + 1
    /\ Len(calls) = 8
    /\ last.op = "push_number"
    /\ last.pre.bit_offset + last.n > 16
    /\ Len(bits.data) = Len(last.pre.data) + 2

\* C7: after any sequence of push operations bit_offset is in 0..7; a
\* non-zero bit_offset means the byte vector is non-empty and its last byte
\* holds bit_offset meaningful high bits, the low bits being zero; and len()
\* is 8 * bytes when bit_offset = 0, else 8 * (bytes - 1) + bit_offset.
C7_OffsetInvariant ==
    /\ bits.bit_offset \in 0 .. 7
    /\ bits.bit_offset # 0 => bits.data # <<>>
    /\ bits.bit_offset # 0 =>
           bits.data[Len(bits.data)] % Pow2(8 - bits.bit_offset) = 0
    /\ \A i \in 1 .. Len(bits.data) : bits.data[i] \in 0 .. 255
    /\ len(bits) = IF bits.bit_offset = 0 THEN 8 * Len(bits.data)
                   ELSE 8 * (Len(bits.data) - 1) + bits.bit_offset
    /\ len(bits) >= 0

\* C7 witness: a data push that started inside a byte has succeeded and
\* ended inside a byte
C7_Witness ==
    /\ last.op \in {"push_numeric_data", "push_kanji_data"}
    /\ last.res = "Ok"
    /\ last.pre.bit_offset # 0
    /\ bits.bit_offset # 0
    /\ Len(bits.data) > Len(last.pre.data) + 1
    /\ bits.data[Len(bits.data)] # 0

\* the header a data push writes: mode indicator, then the character count
HeaderBits(version, mode, count) ==
    BigEndian(IF version = Micro(1) /\ mode = "Numeric" THEN 0
              ELSE mode_bits_count(version),
              mode_indicator_number(version, mode))
    \o BigEndian(length_bits_count(mode, version), count)

\* the decimal value of a string of ASCII digits
RECURSIVE Decimal(_)
Decimal(d) ==
    IF d = <<>> THEN 0
    ELSE 10 * Decimal(SubSeq(d, 1, Len(d) - 1)) + (d[Len(d)] - 48)

\* digits in groups of three: 10 bits each, 7 bits for two, 4 bits for one
RECURSIVE NumericGroups(_)
NumericGroups(d) ==
    IF d = <<>> THEN <<>>
    ELSE IF Len(d) >= 3
    THEN BigEndian(10, Decimal(SubSeq(d, 1, 3)))
         \o NumericGroups(SubSeq(d, 4, Len(d)))
    ELSE IF Len(d) = 2 THEN BigEndian(7, Decimal(d))
    ELSE BigEndian(4, Decimal(d))

\* C8: a successful push_numeric_data(d) appends the mode indicator, |d| in
\* length_bits_count(Numeric, version) bits, then each group of three digits
\* as its decimal value in 10 bits, a trailing group of two in 7 bits and a
\* trailing single digit in 4 bits; "01234567" in Normal(1) gives
\* 10 20 0C 56 61 80 and "0123456789012345" in Micro(3) gives
\* 20 06 2B 35 37 0A 75 28.
C8_NumericEncoding ==
    (last.op = "push_numeric_data" /\ last.res = "Ok") =>
        /\ StreamBits(bits) =
              StreamBits(last.pre)
              \o HeaderBits(bits.version, "Numeric", Len(last.data))
              \o NumericGroups(last.data)
        /\ (last.pre = new(Normal(1))
              /\ last.data = <<48, 49, 50, 51, 52, 53, 54, 55>>)
             => bits.data = <<16, 32, 12, 86, 97, 128>>
        /\ (last.pre = new(Micro(3))
              /\ last.data = <<48, 49, 50, 51, 52, 53, 54, 55, 56, 57,
                               48, 49, 50, 51, 52, 53>>)
             => bits.data = <<32, 6, 43, 53, 55, 10, 117, 40>>

\* C8 witness: the sixteen digits have been pushed into a fresh Micro(3)
C8_Witness ==
    /\ last.op = "push_numeric_data" /\ last.res = "Ok"
    /\ last.pre = new(Micro(3))
    /\ Len(last.data) = 16
    /\ bits.data = <<32, 6, 43, 53, 55, 10, 117, 40>>

\* the 45 characters of the alphanumeric set, in the order of their values
AlphanumericSet ==
    <<48, 49, 50, 51, 52, 53, 54, 55, 56, 57,
      65, 66, 67, 68, 69, 70, 71, 72, 73, 74, 75, 76, 77, 78, 79, 80, 81, 82,
      83, 84, 85, 86, 87, 88, 89, 90,
      32, 36, 37, 42, 43, 45, 46, 47, 58>>

AlphanumericValue(c) ==
    (CHOOSE i \in 1 .. Len(AlphanumericSet) : AlphanumericSet[i] = c) - 1

\* characters in pairs: 45 * first + second in 11 bits, a single one in 6
RECURSIVE AlphanumericPairs(_)
AlphanumericPairs(d) ==
    IF d = <<>> THEN <<>>
    ELSE IF Len(d) >= 2
    THEN BigEndian(11, 45 * AlphanumericValue(d[1]) + AlphanumericValue(d[2]))
         \o AlphanumericPairs(SubSeq(d, 3, Len(d)))
    ELSE BigEndian(6, AlphanumericValue(d[1]))

\* C9: a successful push_alphanumeric_data(d) appends the mode indicator,
\* the character count in length_bits_count(Alphanumeric, version) bits,
\* then each pair (c1, c2) as 45 * digit(c1) + digit(c2) in 11 bits and a
\* trailing character as digit(c) in 6 bits, digit mapping 0-9 to 0..9, A-Z
\* to 10..35 and space $ % * + - . / : to 36..44; "AC-42" in Normal(1)
\* gives 20 29 CE E7 21 00.
C9_AlphanumericEncoding ==
    (last.op = "push_alphanumeric_data" /\ last.res = "Ok") =>
        /\ StreamBits(bits) =
              StreamBits(last.pre)
              \o HeaderBits(bits.version, "Alphanumeric", Len(last.data))
              \o AlphanumericPairs(last.data)
        /\ (last.pre = new(Normal(1)) /\ last.data = <<65, 67, 45, 52, 50>>)
             => bits.data = <<32, 41, 206, 231, 33, 0>>

\* C9 witness: "AC-42" has been pushed into a fresh Normal(1)
C9_Witness ==
    /\ last.op = "push_alphanumeric_data" /\ last.res = "Ok"
    /\ last.pre = new(Normal(1))
    /\ last.data = <<65, 67, 45, 52, 50>>
    /\ bits.data = <<32, 41, 206, 231, 33, 0>>

\* the 13-bit value of a Shift-JIS byte pair
KanjiValue(b0, b1) ==
    LET cp == 256 * b0 + b1
        t == IF cp < 57408 THEN cp - 33088 ELSE cp - 49472
    IN  (t \div 256) * 192 + (t % 256)

RECURSIVE KanjiPairs(_)
KanjiPairs(d) ==
    IF d = <<>> THEN <<>>
    ELSE BigEndian(13, KanjiValue(d[1], d[2]))
         \o KanjiPairs(SubSeq(d, 3, Len(d)))

\* C10: a successful push_kanji_data(d) on even-length Shift-JIS data
\* appends the mode indicator, the count |d|/2 in
\* length_bits_count(Kanji, version) bits, then for each byte pair (b0, b1)
\* the value (t >> 8) * 0xC0 + (t & 0xFF) in 13 bits, with cp = 256 b0 + b1
\* and t = cp - 0x8140 if cp < 0xE040 else cp - 0xC140; 93 5F E4 AA in
\* Normal(1) gives 80 26 CF EA A8.
C10_KanjiEncoding ==
    (last.op = "push_kanji_data" /\ last.res = "Ok"
       /\ Len(last.data) % 2 = 0) =>
        /\ StreamBits(bits) =
              StreamBits(last.pre)
              \o HeaderBits(bits.version, "Kanji", Len(last.data) \div 2)
              \o KanjiPairs(last.data)
        /\ (last.pre = new(Normal(1)) /\ last.data = <<147, 95, 228, 170>>)
             => bits.data = <<128, 38, 207, 234, 168>>

\* C10 witness: the two kanji have been pushed into a fresh Normal(1)
C10_Witness ==
    /\ last.op = "push_kanji_data" /\ last.res = "Ok"
    /\ last.pre = new(Normal(1))
    /\ last.data = <<147, 95, 228, 170>>
    /\ bits.data = <<128, 38, 207, 234, 168>>

\* the (version, ec_level) pairs of the standard: Normal 1-40 at any level,
\* M1 at L, M2 and M3 at L or M, M4 at L, M or Q, the 32 rMQR sizes at M or H
Tabulated(version, ec_level) ==
    \/ version.kind = "Normal" /\ version.a \in 1 .. 40
    \/ version.kind = "Micro" /\ version.a = 1 /\ ec_level = 0
    \/ version.kind = "Micro" /\ version.a \in {2, 3} /\ ec_level \in {0, 1}
    \/ version.kind = "Micro" /\ version.a = 4 /\ ec_level \in {0, 1, 2}
    \/ /\ version.kind = "Rmqr"
       /\ \E i \in 1 .. Len(rmqr_all) : rmqr_all[i] = <<version.a, version.b>>
       /\ ec_level \in {1, 3}

\* the row of a tabulated version in DATA_LENGTHS (rows counted from 1)
TableRow(version) ==
    CASE version.kind = "Normal" -> version.a
      [] version.kind = "Micro" -> 40 + version.a
      [] OTHER -> 44 + (CHOOSE i \in 1 .. Len(rmqr_all) :
                            rmqr_all[i] = <<version.a, version.b>>)

\* the capacity in bits of a tabulated (version, ec_level)
Capacity(version, ec_level) == DATA_LENGTHS[TableRow(version)][ec_level + 1]

\* C1: find_min_version(length, ec_level) returns the least v in 1..40 with
\* capacity(v, ec_level) >= length, for every length in
\* 0..capacity(40, ec_level) and every level, reading only rows of the
\* Normal versions; and when encode_auto succeeds with Normal(v), v is the
\* smallest version whose capacity at ec_level holds the optimized total
\* encoded length the stream was built from.
C1_MinimalVersion ==
    /\ (last.op = "find_min_version"
          /\ last.length <= Capacity(Normal(40), last.ec_level)) =>
           /\ last.out.version.kind = "Normal"
           /\ last.out.version.a \in 1 .. 40
           /\ Capacity(last.out.version, last.ec_level) >= last.length
           /\ \A u \in 1 .. (last.out.version.a - 1) :
                  Capacity(Normal(u), last.ec_level) < last.length
           /\ last.out.top \in 0 .. 39
    /\ (last.op = "encode_auto" /\ last.res = "Ok") =>
           /\ bits.version.kind = "Normal"
           /\ bits.version.a \in 1 .. 40
           /\ Capacity(bits.version, last.ec_level) >= last.out.total_len
           /\ \A u \in 1 .. (bits.version.a - 1) :
                  Capacity(Normal(u), last.ec_level) < last.out.total_len

\* C1 witness: encode_auto has chosen a version above 1 for data that fills
\* it to the last bit but one byte
C1_Witness ==
    /\ last.op = "encode_auto" /\ last.res = "Ok"
    /\ bits.version.a >= 3
    /\ last.out.total_len > Capacity(Normal(bits.version.a - 1), last.ec_level)
    /\ Capacity(bits.version, last.ec_level) - last.out.total_len < 8

\* the optimized encoded length of the input at a version
EncodedLenAt(data, version) ==
    total_encoded_len(Optimizer(Parser(data), version), version)

\* the tabulated rMQR versions that hold the input at the level
RmqrFits(data, ec_level) ==
    {version \in {Rmqr(rmqr_all[i][1], rmqr_all[i][2]) :
                      i \in 1 .. Len(rmqr_all)} :
        /\ Tabulated(version, ec_level)
        /\ EncodedLenAt(data, version) <= Capacity(version, ec_level)}

\* C2: a successful encode_auto_rmqr returns a Bits built at a version that
\* holds the data at ec_level and is, among all 32 tabulated rMQR versions
\* that hold it, of the smallest width (strategy Width), the smallest
\* height (Height) or the smallest height * width (Area).
C2_RmqrSelection ==
    (last.op = "encode_auto_rmqr" /\ last.res = "Ok") =>
        LET fits == RmqrFits(last.data, last.ec_level)
        IN  /\ bits.version \in fits
            /\ last.strategy = "Width" =>
                 \A u \in fits : bits.version.b <= u.b
            /\ last.strategy = "Height" =>
                 \A u \in fits : bits.version.a <= u.a
            /\ last.strategy = "Area" =>
                 \A u \in fits :
                     bits.version.a * bits.version.b <= u.a * u.b

\* C2 witness: strategy Area has chosen a version that is neither the
\* narrowest nor the lowest of those that hold the data
C2_Witness ==
    /\ last.op = "encode_auto_rmqr" /\ last.res = "Ok"
    /\ last.strategy = "Area"
    /\ \E u \in RmqrFits(last.data, last.ec_level) : u.b < bits.version.b
    /\ \E u \in RmqrFits(last.data, last.ec_level) : u.a < bits.version.a

C3_BytesAreCapacityDiv8 ==
    (last.op = "push_terminator" /\ last.res = "Ok") =>
        Len(bits.data) = Capacity(bits.version, last.ec_level) \div 8

\* C3 amended: after a successful push_terminator the byte vector holds
\* the capacity in bytes rounded up, (data_capacity_bits + 7) / 8: a
\* capacity that ends in a half byte (M1, M3) takes one more byte.
C3_BytesAreCapacityCeil ==
    (last.op = "push_terminator" /\ last.res = "Ok") =>
        /\ Len(bits.data) = (Capacity(bits.version, last.ec_level) + 7) \div 8
        /\ len(bits) >= Capacity(bits.version, last.ec_level)

\* C3 witness: a half-byte capacity has been terminated from a stream that
\* ended inside its last byte
C3_Witness ==
    /\ last.op = "push_terminator" /\ last.res = "Ok"
    /\ Capacity(bits.version, last.ec_level) % 8 # 0
    /\ len(last.pre) < Capacity(bits.version, last.ec_level) - 9
    /\ Len(bits.data) = (Capacity(bits.version, last.ec_level) \div 8) + 1

\* the width of the terminator of a version
TerminatorWidth(version) ==
    CASE version.kind = "Normal" -> 4
      [] version.kind = "Micro" -> 2 * version.a + 1
      [] OTHER -> 3

\* the bytes 0xEC, 0x11, 0xEC, ... , n of them
Alternating(n) == [i \in 1 .. n |-> IF i % 2 = 1 THEN 236 ELSE 17]

\* the byte vector a terminated stream must hold, from the stream `pre`
\* before the call (its last byte, when partial, has zero low bits)
Terminated(pre, ec_level) ==
    LET capacity == Capacity(pre.version, ec_level)
        k == Min(TerminatorWidth(pre.version), capacity - len(pre))
        filled_bytes == (len(pre) + k + 7) \div 8
        whole == capacity \div 8
        pad == IF whole > filled_bytes THEN whole - filled_bytes ELSE 0
        sofar == filled_bytes + pad
    IN  pre.data
        \o Zeros(filled_bytes - Len(pre.data))
        \o Alternating(pad)
        \o (IF 8 * sofar < capacity THEN <<0>> ELSE <<>>)

\* C4: a successful push_terminator appends min(k, capacity - len) zero bits
\* (k = 4 for Normal, 2v + 1 for Micro(v), 3 for rMQR), zero-fills to the
\* next byte boundary, appends 0xEC, 0x11, 0xEC, ... (0xEC first) until
\* floor(capacity / 8) bytes are present, and one final 0x00 byte only when
\* the stream is then still shorter than a capacity that is no multiple of
\* 8; the bits in the stream before the call are not changed.
C4_TerminatorLayout ==
    (last.op = "push_terminator" /\ last.res = "Ok") =>
        /\ bits.data = Terminated(last.pre, last.ec_level)
        /\ SubSeq(bits.data, 1, Len(last.pre.data)) = last.pre.data
        /\ bits.version = last.pre.version

\* C4 witness: a terminator cut short by the capacity, and a terminator
\* followed by at least two padding bytes and the final zero byte
C4_Witness ==
    /\ last.op = "push_terminator" /\ last.res = "Ok"
    /\ last.pre.bit_offset # 0
    /\ Capacity(bits.version, last.ec_level) % 8 # 0
    /\ Len(bits.data) >= Len(last.pre.data) + 3
    /\ bits.data[Len(bits.data)] = 0
    /\ bits.data[Len(bits.data) - 1] = 17
    /\ bits.data[Len(bits.data) - 2] = 236

(***************************************************************************)
(* Which modes a version takes, as the standard has it                     *)
(***************************************************************************)
\* the Micro versions of the standard; Normal and rMQR versions take every
\* mode whatever their size
InRange(version) == version.kind = "Micro" => version.a \in 1 .. 4

\* M1 is numeric only, M2 numeric and alphanumeric
Permitted(mode, version) ==
    /\ version = Micro(1) => mode = "Numeric"
    /\ version = Micro(2) => mode \in {"Numeric", "Alphanumeric"}

\* the characters the length field counts
CharCount(mode, data) == IF mode = "Kanji" THEN Len(data) \div 2 ELSE Len(data)

\* the count is one the length field of the mode cannot hold
CountTooBig(mode, version, data) ==
    CharCount(mode, data) >= Pow2(length_bits_count(mode, version))

DataPushes ==
    {"push_numeric_data", "push_alphanumeric_data", "push_byte_data",
     "push_kanji_data"}

InAlphanumericSet(c) == \E i \in 1 .. Len(AlphanumericSet) : AlphanumericSet[i] = c

\* C11: push_alphanumeric_data returns Err(InvalidCharacter) whenever the
\* input contains a byte outside the 45-character alphanumeric set, for
\* every version in which Alphanumeric mode is permitted (the count being
\* one the length field holds).
C11_InvalidCharacter ==
    (/\ last.op = "push_alphanumeric_data"
     /\ InRange(last.pre.version)
     /\ Permitted("Alphanumeric", last.pre.version)
     /\ ~CountTooBig("Alphanumeric", last.pre.version, last.data)
     /\ \E i \in 1 .. Len(last.data) : ~InAlphanumericSet(last.data[i]))
        => last.res = "InvalidCharacter"

\* a Shift JIS pair on which a build with overflow checks and debug
\* assertions stops: below 0x8140, or with a value of more than 13 bits
PairPanics(b0, b1) ==
    \/ 256 * b0 + b1 < 33088
    \/ KanjiValue(b0, b1) >= Pow2(13)

C13_ModeBeforeLength ==
    (last.op \in DataPushes /\ InRange(last.pre.version)) =>
        IF ~Permitted(last.mode, last.pre.version)
        THEN last.res = "UnsupportedCharacterSet"
        ELSE last.res = "DataTooLong"
                <=> CountTooBig(last.mode, last.pre.version, last.data)

\* C13 witness: Micro(1) refused bytes for their mode although there were
\* more of them than the length field counts
C13_Witness ==
    /\ last.op = "push_byte_data"
    /\ last.pre.version = Micro(1)
    /\ CountTooBig("Byte", Micro(1), last.data)
    /\ last.res = "UnsupportedCharacterSet"

\* the width of the mode indicator
IndicatorWidth(version, mode) ==
    CASE version = Micro(1) /\ mode = "Numeric" -> 0
      [] version.kind = "Micro" -> version.a - 1
      [] version.kind = "Rmqr" -> 3
      [] OTHER -> 4

\* the value of the mode indicator
IndicatorValue(version, mode) ==
    LET i == CHOOSE k \in 1 .. 4 :
                 <<"Numeric", "Alphanumeric", "Byte", "Kanji">>[k] = mode
    IN  CASE version.kind = "Micro" -> <<0, 1, 2, 3>>[i]
          [] version.kind = "Rmqr" -> <<1, 2, 3, 4>>[i]
          [] OTHER -> <<1, 2, 4, 8>>[i]

\* C14: push_mode_indicator appends exactly mode_bits_count(version) bits
\* holding the indicator - 4 bits in Normal versions (1, 2, 4, 8), v - 1
\* bits in Micro(v) (0, 1, 2, 3), 3 bits in rMQR (1, 2, 3, 4), none for
\* Micro(1) with Numeric - and returns Err(UnsupportedCharacterSet) exactly
\* for Micro(1) with Alphanumeric, Byte or Kanji and Micro(2) with Byte or
\* Kanji; every mode is accepted in Micro(3), Micro(4), Normal and rMQR.
C14_ModeIndicator ==
    (last.op = "push_mode_indicator" /\ InRange(last.pre.version)) =>
        /\ last.res \in {"Ok", "UnsupportedCharacterSet"}
        /\ last.res = "UnsupportedCharacterSet"
              <=> ~Permitted(last.mode, last.pre.version)
        /\ last.res = "Ok" =>
              /\ len(bits) = len(last.pre)
                             + IndicatorWidth(last.pre.version, last.mode)
              /\ StreamBits(bits) =
                    StreamBits(last.pre)
                    \o BigEndian(IndicatorWidth(last.pre.version, last.mode),
                                 IndicatorValue(last.pre.version, last.mode))

\* C14 witness: Micro(4) took the kanji indicator 3 in three bits after the
\* two bits the stream held
C14_Witness ==
    /\ last.op = "push_mode_indicator" /\ last.res = "Ok"
    /\ last.pre = filled(Micro(4), 2)
    /\ last.mode = "Kanji"
    /\ bits.data = <<216>>
    /\ bits.bit_offset = 5

\* C15: Version::fetch returns Ok(c) with c > 0 exactly for Normal(1..=40)
\* at any level, Micro(1) at L, Micro(2) and Micro(3) at L or M, Micro(4) at
\* L, M or Q, and the 32 tabulated rMQR sizes at M or H; every other
\* (version, level) - Normal(0), Normal(41), Micro(0), Micro(5), rMQR at L or
\* Q, Rmqr(7, 27) - gives Err(InvalidVersion).
C15_FetchDomain ==
    last.op = "fetch" =>
        IF Tabulated(last.pre.version, last.ec_level)
        THEN last.res = "Ok" /\ last.length > 0
        ELSE last.res = "InvalidVersion"

\* C15 witness: Micro(4) has a capacity at level Q
C15_Witness ==
    /\ last.op = "fetch" /\ last.res = "Ok"
    /\ last.pre.version = Micro(4)
    /\ last.ec_level = 2
    /\ last.length = 80

\* C16: encode_auto_rmqr fails with Err(DataTooLong) whenever none of the 32
\* rMQR versions can hold the data at the requested ec_level, for each of
\* the four levels and the three strategies.
C16_RmqrDataTooLong ==
    (last.op = "encode_auto_rmqr" /\ RmqrFits(last.data, last.ec_level) = {})
        => last.res = "DataTooLong"

\* C17: encode_auto returns Err(DataTooLong) only when the data does not
\* fit Normal(40) at the level, and succeeds otherwise: at level L 2953
\* bytes (23644 bits of the 23648) give Normal(40), 2954 bytes give
\* Err(DataTooLong).
C17_AutoDataTooLong ==
    last.op = "encode_auto" =>
        /\ last.res \in {"Ok", "DataTooLong"}
        /\ last.res = "DataTooLong"
              <=> EncodedLenAt(last.data, Normal(40))
                    > Capacity(Normal(40), last.ec_level)
        /\ (last.data = input_data("Byte", 2953) /\ last.ec_level = 0)
              => /\ last.res = "Ok"
                 /\ bits.version = Normal(40)
                 /\ last.out.total_len = 23644
        /\ (last.data = input_data("Byte", 2954) /\ last.ec_level = 0)
              => last.res = "DataTooLong"

\* C17 witness: 2953 bytes have been encoded at level L
C17_Witness ==
    /\ last.op = "encode_auto" /\ last.res = "Ok"
    /\ last.data = input_data("Byte", 2953)
    /\ last.ec_level = 0
    /\ bits.version = Normal(40)
    /\ Len(bits.data) = 2956

\* C18: encode_auto on the empty input succeeds at every level, selects
\* Normal(1), and the bytes are one 0x00 followed by EC 11 EC ... up to the
\* capacity of Normal(1): 19, 16, 13, 9 bytes for L, M, Q, H.
C18_EmptyInput ==
    (last.op = "encode_auto" /\ last.data = <<>>) =>
        /\ last.res = "Ok"
        /\ bits.version = Normal(1)
        /\ Len(bits.data) = <<19, 16, 13, 9>>[last.ec_level + 1]
        /\ bits.bit_offset = 0
        /\ \A i \in 1 .. Len(bits.data) :
               bits.data[i] = IF i = 1 THEN 0
                              ELSE IF i % 2 = 0 THEN 236 ELSE 17

\* C18 witness: the empty input has been encoded at level H
C18_Witness ==
    /\ last.op = "encode_auto" /\ last.data = <<>> /\ last.res = "Ok"
    /\ last.ec_level = 3
    /\ bits.data = <<0, 236, 17, 236, 17, 236, 17, 236, 17>>

\* a <= b in the partial order of the modes
ModeLeq(a, b) == partial_cmp(a, b) \in {"Less", "Equal"}

\* C19: Mode::max is idempotent and commutative, max(Alphanumeric, Kanji)
\* is Byte, the result is an upper bound of both arguments under
\* partial_cmp, and modes that are not comparable (Alphanumeric and Kanji,
\* Numeric and Kanji) join to Byte.
C19_ModeMax ==
    last.op = "max" =>
        /\ last.mode = last.other => last.result = last.mode
        /\ last.result = max(last.other, last.mode)
        /\ {last.mode, last.other} = {"Alphanumeric", "Kanji"}
              => last.result = "Byte"
        /\ ModeLeq(last.mode, last.result)
        /\ ModeLeq(last.other, last.result)
        /\ {last.mode, last.other} \in {{"Alphanumeric", "Kanji"},
                                        {"Numeric", "Kanji"}}
              => /\ partial_cmp(last.mode, last.other) = "None"
                 /\ last.result = "Byte"
        /\ partial_cmp(last.mode, last.other) = "None"
              => last.result = "Byte"

\* C19 witness: the join of Kanji and Numeric has been taken
C19_Witness ==
    /\ last.op = "max"
    /\ last.mode = "Kanji" /\ last.other = "Numeric"
    /\ last.result = "Byte"

\* the values a QrResult<()> has
QrResults ==
    {"Ok", "DataTooLong", "InvalidVersion", "UnsupportedCharacterSet",
     "InvalidEciDesignator", "InvalidCharacter"}

\* C20: for every constructible Version, every EcLevel and every byte
\* string, push_mode_indicator, push_*_data and push_terminator return Ok
\* or one of the five QrError values: no integer underflow or overflow, no
\* failed assertion, no index out of bounds.
C20_NoPanic ==
    last.op \in DataPushes \cup {"push_mode_indicator", "push_terminator"}
        => last.res \in QrResults

\* C22: push_number_checked(n, v) returns Err(DataTooLong) if and only if
\* n > 16 or v >= 2^n, and returns Ok otherwise.
C22_CheckedResult ==
    last.op = "push_number_checked" =>
        /\ last.res \in {"Ok", "DataTooLong"}
        /\ last.res = "DataTooLong"
              <=> (last.n > 16 \/ last.number >= Pow2(last.n))

\* C22 witness: the largest 16-bit number was taken, in 16 bits, after the
\* stream held two bits
C22_Witness ==
    /\ last.op = "push_number_checked" /\ last.res = "Ok"
    /\ last.n = 16 /\ last.number = 65535
    /\ last.pre.bit_offset = 2
    /\ len(bits) = 18

\* C24: a successful push_number_checked(n, v) increases len() by exactly
\* n, for every 0 <= n <= 16 and every bit offset 0..7; so len() never
\* decreases and a zero-width push leaves the stream unchanged.
C24_LenGrowsByN ==
    (last.op = "push_number_checked" /\ last.res = "Ok") =>
        /\ len(bits) = len(last.pre) + last.n
        /\ last.n = 0 => bits = last.pre

\* a pair of bytes the parser takes for a kanji
KanjiPair(b0, b1) ==
    /\ b0 \in (129 .. 159) \cup (224 .. 235)
    /\ b1 \in (64 .. 252) \ {127}

\* the input is of the alphabet of the mode
InAlphabet(mode, data) ==
    CASE mode = "Numeric" -> \A i \in 1 .. Len(data) : data[i] \in 48 .. 57
      [] mode = "Alphanumeric" ->
           \A i \in 1 .. Len(data) : InAlphanumericSet(data[i])
      [] mode = "Byte" -> TRUE
      [] OTHER ->
           /\ Len(data) % 2 = 0
           /\ \A i \in 1 .. (Len(data) \div 2) :
                  KanjiPair(data[2 * i - 1], data[2 * i])

\* the bits of n characters of a mode
DataBits(mode, n) ==
    CASE mode = "Numeric" -> (10 * n + 2) \div 3
      [] mode = "Alphanumeric" -> (11 * n + 1) \div 2
      [] mode = "Byte" -> 8 * n
      [] OTHER -> 13 * n

\* C25: for every version, every mode permitted in it and every
\* in-alphabet input whose count fits the length field, a successful
\* push_*_data increases len() by exactly mode_bits_count(version) +
\* length_bits_count(mode, version) + data_bits_count(mode, count), with
\* data_bits_count = (10n+2)/3, (11n+1)/2, 8n and 13n for Numeric,
\* Alphanumeric, Byte and Kanji.
C25_LenGrowsBySegment ==
    (/\ last.op \in DataPushes
     /\ last.res = "Ok"
     /\ InRange(last.pre.version)
     /\ InAlphabet(last.mode, last.data)) =>
        /\ Permitted(last.mode, last.pre.version)
        /\ ~CountTooBig(last.mode, last.pre.version, last.data)
        /\ data_bits_count(last.mode, CharCount(last.mode, last.data))
              = DataBits(last.mode, CharCount(last.mode, last.data))
        /\ len(bits) =
              len(last.pre)
              + mode_bits_count(last.pre.version)
              + length_bits_count(last.mode, last.pre.version)
              + DataBits(last.mode, CharCount(last.mode, last.data))

\* C25 witness: seven letters, 39 bits, were pushed into Micro(2) behind its
\* one-bit indicator and three-bit count, after the stream held one bit
C25_Witness ==
    /\ last.op = "push_alphanumeric_data" /\ last.res = "Ok"
    /\ last.pre = filled(Micro(2), 1)
    /\ Len(last.data) = 7
    /\ InAlphabet("Alphanumeric", last.data)
    /\ len(bits) = 1 + 1 + 3 + 39

\* C26: whenever push_numeric_data, push_alphanumeric_data, push_byte_data
\* or push_kanji_data returns an error (UnsupportedCharacterSet, DataTooLong
\* or InvalidCharacter), the Bits is exactly as it was before the call.
C26_ErrorLeavesBits ==
    (/\ last.op \in DataPushes
     /\ last.res \in {"UnsupportedCharacterSet", "DataTooLong",
                      "InvalidCharacter"})
        => bits = last.pre

\* C27: for every Shift-JIS pair the parser classifies as Kanji (lead byte
\* 0x81-0x9F or 0xE0-0xEB, trail byte 0x40-0xFC except 0x7F) the value
\* push_kanji_data computes is < 2^13: it satisfies the precondition
\* push_number asserts and leaves the bits outside its 13-bit field alone.
C27_KanjiValueFits ==
    (/\ last.op = "push_kanji_data"
     /\ Len(last.data) = 2
     /\ KanjiPair(last.data[1], last.data[2])) =>
        /\ kanji_number(last.data[1], last.data[2]) < Pow2(13)
        /\ last.res = "Ok"
        /\ SubSeq(StreamBits(bits), 1, len(bits) - 13)
              = StreamBits(last.pre) \o HeaderBits(bits.version, "Kanji", 1)

\* the representative version whose optimized length encode_auto accepts:
\* the first of Normal(9), Normal(26), Normal(40) that holds the input
Representative(data, ec_level) ==
    CASE EncodedLenAt(data, Normal(9)) <= Capacity(Normal(9), ec_level) -> 9
      [] EncodedLenAt(data, Normal(26)) <= Capacity(Normal(26), ec_level) -> 26
      [] OTHER -> 40

\* the versions that share the length fields of a representative
Regime(representative) ==
    CASE representative = 9 -> 1 .. 9
      [] representative = 26 -> 10 .. 26
      [] OTHER -> 27 .. 40

\* C23: in encode_auto the version find_min_version returns lies in the
\* length-field regime of the representative version (9, 26 or 40) whose
\* optimized length was accepted - 1..=9, 10..=26, 27..=40 - so the length
\* fields written have the widths assumed when total_len was computed and
\* len() just before the terminator equals total_len.
C23_SameRegime ==
    (last.op = "encode_auto" /\ last.res = "Ok") =>
        /\ bits.version.kind = "Normal"
        /\ bits.version.a \in Regime(Representative(last.data, last.ec_level))
        /\ last.out.total_len
              = EncodedLenAt(last.data,
                             Normal(Representative(last.data, last.ec_level)))
        /\ last.out.total_len = EncodedLenAt(last.data, bits.version)
        /\ len(push_segments(new(bits.version), last.data,
                             Optimizer(Parser(last.data), bits.version),
                             FALSE).b)
              = last.out.total_len

\* C23 witness: 99 bytes at level H are too many for Normal(9) and were
\* encoded, with the 16-bit count of Normal(26), in Normal(10)
C23_Witness ==
    /\ last.op = "encode_auto" /\ last.res = "Ok"
    /\ last.data = input_data("Byte", 99)
    /\ last.ec_level = 3
    /\ last.out.total_len = 812
    /\ bits.version = Normal(10)

\* the encoders of the automatic search
Encoders == {"encode_auto", "encode_auto_rmqr"}

\* C28: for every tabulated (version, ec_level) of the three families and
\* every mode permitted in the version, a segment whose character count
\* does not fit the length field (count >= 2^length_bits_count) already
\* needs more bits than DATA_LENGTHS[version][ec_level]; hence whenever
\* total_encoded_len <= capacity push_segments at the selected version
\* cannot fail with DataTooLong, and encode_auto and encode_auto_rmqr never
\* fail after a version has been selected.
C28_LengthFieldHoldsCapacity ==
    /\ (last.op = "max_len" /\ last.res = "Ok") =>
          \A mode \in Modes :
              Permitted(mode, bits.version) =>
                  mode_bits_count(bits.version)
                  + length_bits_count(mode, bits.version)
                  + DataBits(mode, Pow2(length_bits_count(mode, bits.version)))
                    > last.length
    /\ (last.op \in Encoders /\ last.res = "Ok") =>
          /\ Tabulated(bits.version, last.ec_level)
          /\ \A i \in 1 .. Len(Parser(last.data)) :
                 segment_chars(Parser(last.data)[i])
                   < Pow2(length_bits_count(Parser(last.data)[i].mode,
                                            bits.version))
    /\ (last.op = "encode_auto" /\ last.res # "Ok") =>
          /\ last.res = "DataTooLong"
          /\ \A r \in {9, 26, 40} :
                 EncodedLenAt(last.data, Normal(r))
                    > Capacity(Normal(r), last.ec_level)
    /\ (last.op = "encode_auto_rmqr" /\ last.res # "Ok") =>
          RmqrFits(last.data, last.ec_level) = {}

\* C28 witness: the capacity of Rmqr(17, 139) at level M, 1216 bits, has
\* been read; the 256 letters its 8-bit count cannot hold need 1408 bits
C28_Witness ==
    /\ last.op = "max_len" /\ last.res = "Ok"
    /\ bits.version = Rmqr(17, 139)
    /\ last.ec_level = 1
    /\ last.length = 1216
    /\ length_bits_count("Alphanumeric", bits.version) = 8
    /\ DataBits("Alphanumeric", 256) = 1408

\* the QrCode constructors
Constructors ==
    {"with_version", "with_error_correction_level", "rmqr_with_options"}

\* the side lengths of the symbols: 4v + 17 for Normal(v), 2v + 9 for
\* Micro(v), w wide and h high for Rmqr(h, w)
SymbolWidth(version) ==
    CASE version.kind = "Normal" -> 4 * version.a + 17
      [] version.kind = "Micro" -> 2 * version.a + 9
      [] OTHER -> version.b

SymbolHeight(version) ==
    IF version.kind = "Rmqr" THEN version.a ELSE SymbolWidth(version)

\* C21: a QrCode returned by with_bits / with_version for version V reports
\* width() = V.width() and height() = V.height() (Normal(v): 4v+17 square;
\* Micro(v): 2v+9 square; Rmqr(h, w): w wide and h high), and its module
\* vector has exactly width * height entries, addressed row-major as
\* y * width + x.
C21_CodeSize ==
    (last.op \in Constructors /\ last.res = "Ok") =>
        /\ last.code.version = bits.version
        /\ last.op = "with_version" => last.code.version = last.out.version
        /\ last.code.width = SymbolWidth(last.code.version)
        /\ last.code.height = SymbolHeight(last.code.version)
        /\ Len(last.code.content) = last.code.width * last.code.height
        /\ Len(to_str(last.code, "#", ".")) =
              last.code.height * (last.code.width + 1)
        /\ \A y \in 0 .. (last.code.height - 1) :
             \A x \in 0 .. (last.code.width - 1) :
                /\ y * last.code.width + x + 1 \in DOMAIN last.code.content
                /\ to_str(last.code, "#", ".")[y * (last.code.width + 1) + x + 1]
                     = IF last.code.content[y * last.code.width + x + 1]
                            = "Dark"
                       THEN "#" ELSE "."

\* C21 witness: a QrCode of Rmqr(7, 43) has been made, 43 wide and 7 high
C21_Witness ==
    /\ last.op = "with_version" /\ last.res = "Ok"
    /\ last.code.version = Rmqr(7, 43)
    /\ last.code.width = 43
    /\ last.code.height = 7
    /\ Len(last.code.content) = 301

\* the four sides of the cell (x, y), each with the cell beyond it: the top
\* side rightwards, the right side downwards, the bottom side leftwards and
\* the left side upwards
Sides(x, y) ==
    { <<[sx |-> x, sy |-> y, ex |-> x + 1, ey |-> y], <<x, y - 1>> >>,
      <<[sx |-> x + 1, sy |-> y, ex |-> x + 1, ey |-> y + 1], <<x + 1, y>> >>,
      <<[sx |-> x + 1, sy |-> y + 1, ex |-> x, ey |-> y + 1], <<x, y + 1>> >>,
      <<[sx |-> x, sy |-> y + 1, ex |-> x, ey |-> y], <<x - 1, y>> >> }

\* the unit edges that separate a cell of the set from a cell outside it
Boundary(cells) ==
    {side[1] : side \in {s \in UNION {Sides(c[1], c[2]) : c \in cells} :
                            s[2] \notin cells}}

\* C29: after add_or_remove has been called once for each cell of a set of
\* distinct cells, in any order, the segment set is exactly the set of unit
\* edges that separate a cell of the set from a cell outside it, each
\* oriented clockwise around its own cell; it never holds both a segment and
\* its reverse, and it does not depend on the order of the calls.
C29_BoundaryOfCells ==
    trace.at = "add" =>
        /\ directed_segments = Boundary(trace.cells)
        /\ \A s \in directed_segments :
              [sx |-> s.ex, sy |-> s.ey, ex |-> s.sx, ey |-> s.sy]
                 \notin directed_segments

\* C29 witness: an L of three cells has been added; two shared sides have
\* gone and eight sides remain
C29_Witness ==
    /\ trace.at = "add"
    /\ trace.cells = {<<0, 0>>, <<1, 0>>, <<1, 1>>}
    /\ Cardinality(directed_segments) = 8
    /\ [sx |-> 1, sy |-> 0, ex |-> 1, ey |-> 1] \notin directed_segments
    /\ [sx |-> 1, sy |-> 1, ex |-> 0, ey |-> 1] \in directed_segments

\* a segment runs along x
Horizontal(s) == s.sy = s.ey

\* the outline popped last is a closed loop with at least four corners, each
\* perpendicular to the next, the first one following the last
ClosedOutline ==
    /\ <<trace.current_segment.ex, trace.current_segment.ey>>
          = <<trace.start_segment.sx, trace.start_segment.sy>>
    /\ Len(trace.corners) >= 4
    /\ \A i \in DOMAIN trace.corners :
          Horizontal(trace.corners[i])
             # Horizontal(trace.corners[(i % Len(trace.corners)) + 1])
    /\ ~to_path_square_panics(trace.corners)
    /\ ~to_path_round_panics(trace.corners)

\* C30: for the segment set built from any set of distinct cells, whichever
\* segment pop() picks first, pop_corners_list terminates and leaves the set
\* empty, and every outline is a closed loop: the last segment popped ends
\* where the first one starts, consecutive corner segments are
\* perpendicular and each corner list has at least four entries, so that
\* corners[0] exists and the unreachable!() arms of to_path_round_mut are
\* never reached.  The loop of pop_corners_list terminates because each turn
\* of it takes segments out of the finite set.
C30_ClosedOutlines ==
    /\ [](trace.at = "pop" => ClosedOutline)
    /\ [](trace.at = "done" => directed_segments = {})
    /\ [][\/ trace.at = "add" /\ trace'.at = "add"
          \/ Cardinality(directed_segments') < Cardinality(directed_segments)
          \/ trace'.at = "done" /\ directed_segments' = {}]_vars

\* C30 witness: of a ring of seven cells that leaves the middle cell and a
\* corner cell light, the outline of the middle cell was popped first, from
\* the vertex where it touches the outside: four corners, and the twelve
\* segments of the outer outline are still in the set
C30_Witness ==
    /\ trace.at = "pop"
    /\ trace.cells = Cells \ {<<1, 1>>, <<0, 2>>}
    /\ trace.start_segment = [sx |-> 1, sy |-> 2, ex |-> 2, ey |-> 2]
    /\ Len(trace.corners) = 4
    /\ Cardinality(directed_segments) = 12

====
